---- MODULE Spec2Model ----
(***************************************************************************)
(* House evaluator: the scoring pipeline (Orchestrator.score_house and     *)
(* batch_score), the four agents it drives, their response parsers and    *)
(* the JSON file store.                                                    *)
(*                                                                         *)
(* Units.  Aggregate scores (0..100) and aesthetic qualities (1..10) are   *)
(* integers.  A per-dimension score read from the model is given in        *)
(* tenths (85 is 8.5) and stored in hundredths (850 is 8.50), so that the  *)
(* division by ten of present_fit.py:176 is exact.  Weights are in         *)
(* hundredths on both sides (15 is 0.15).                                  *)
(***************************************************************************)
EXTENDS Integers, Sequences, FiniteSets, TLC

VARIABLES
    store,      \* houses_dir: house id -> the file <id>.json
    taste,      \* taste.json: "absent" or "present"
    pc,         \* position of score_house
    cur,        \* house_id argument of the running score_house
    house,      \* the House object the running agent loaded
    ret,        \* outcome of the last score_house call
    run,        \* number of score_house calls started so far
    stageOut,   \* how each stage of the current run ended
    trace,      \* stages entered in the current run, in order
    before,     \* the house as score_house found it when the run started
    bpc,        \* position of batch_score
    queue,      \* ids batch_score has still to process
    asked,      \* the house_ids argument of batch_score
    results,    \* the results dict of batch_score
    success,    \* the success count batch_score reports
    text,       \* the model's last response
    parser,     \* the agent whose _parse_response read it
    parsed,     \* what that _parse_response did with it
    defaulted,  \* batch_score was called without house_ids
    files,      \* houses_dir as glob("*.json") yields it
    listed,     \* what list_houses returned to get_rankings
    rankings,   \* what get_rankings returned
    address,    \* an address as typed, a sequence of characters
    plain,      \* the same address in lower case, spelled out, single spaces
    once,       \* normalize_address(address)
    twice,      \* normalize_address(once)
    exists,     \* house_exists(address) with a house at "plain" stored
    found,      \* find_house_by_address(address) over the same store
    apc,        \* which of these have been computed
    shelf,      \* houses_dir of the ingesting process: the houses saved, in order
    clock,      \* datetime.now(), in whole seconds
    issued,     \* the ids generate_house_id has returned, in order
    overwrote,  \* a save of a new house replaced the file of another
    ipc,        \* position of bulk_save_houses
    calls,      \* houses handed to the ingest commands and bulk saves so far
    inputs,     \* the houses argument of bulk_save_houses
    todo,       \* the houses its loop has still to visit
    saved,      \* its saved count
    skipped,    \* its skipped count
    uniqueBefore,  \* no two stored addresses were duplicates when it was called
    fpc,        \* position of create_composite / fetch_images
    direct,     \* fetch_images was called on its own, not by create_composite
    image_urls, \* the image_urls argument: the URLs, numbered as given
    max_images, \* the max_images argument
    urls,       \* the urls fetch_images was given
    max_concurrent, \* its max_concurrent argument
    task,       \* task of each url: "created", "waiting", "fetching", "done"
    fetched,    \* what fetch_image returned for each url
    semaphore,  \* the value of the semaphore
    waiters,    \* the tasks waiting for it, first come first
    gets,       \* client.get calls made for each url
    peak,       \* the largest number of fetches that were in flight together
    images,     \* the list fetch_images returned
    composed,   \* how many times an output image was composed
    output,     \* the image create_composite made
    grid_n,     \* the num_images calculate_grid_dimensions is called with
    grid_dims,  \* the (cols, rows) it returned
    gpc,        \* whether it has been called
    house_files,  \* houses_dir as concurrent commands see it
    initial,    \* houses_dir before the first command
    taste_file, \* taste.json: absent, empty (open for writing) or present
    proc,       \* process -> its command, position and local variables
    oracle,     \* stage -> what the model does when that stage calls it
    started     \* number of commands started so far

vars == <<store, taste, pc, cur, house, ret, run, stageOut, trace, before,
          bpc, queue, asked, results, success, text, parser, parsed,
          defaulted, files, listed, rankings,
          address, plain, once, twice, exists, found, apc,
          shelf, clock, issued, overwrote, ipc, calls, inputs, todo, saved,
          skipped, uniqueBefore,
          fpc, direct, image_urls, max_images, urls, max_concurrent, task,
          fetched, semaphore, waiters, gets, peak, images, composed, output,
          grid_n, grid_dims, gpc,
          house_files, initial, taste_file, proc, oracle, started>>

pipeVars == <<store, taste, pc, cur, house, ret, run, stageOut, trace, before,
              bpc, queue, asked, results, success, defaulted>>

parseVars == <<text, parser, parsed>>

rankVars == <<files, listed, rankings>>

addrVars == <<address, plain, once, twice, exists, found, apc>>

ingestVars == <<shelf, clock, issued, overwrote, ipc, calls, inputs, todo, saved,
                skipped, uniqueBefore>>

fetchVars == <<fpc, direct, image_urls, max_images, urls, max_concurrent, task,
               fetched, semaphore, waiters, gets, peak, images, composed, output>>

gridVars == <<grid_n, grid_dims, gpc>>

parVars == <<house_files, initial, taste_file, proc, oracle, started>>

\* the state of the operations that are not part of the scoring pipeline
libVars == <<rankVars, addrVars, ingestVars, fetchVars, gridVars, parVars>>

notRank == <<pipeVars, parseVars, addrVars, ingestVars, fetchVars, gridVars, parVars>>
notAddr == <<pipeVars, parseVars, rankVars, ingestVars, fetchVars, gridVars, parVars>>
notIngest == <<pipeVars, parseVars, rankVars, addrVars, fetchVars, gridVars, parVars>>
notFetch == <<pipeVars, parseVars, rankVars, addrVars, ingestVars, gridVars, parVars>>
notGrid == <<pipeVars, parseVars, rankVars, addrVars, ingestVars, fetchVars, parVars>>
notPar == <<pipeVars, parseVars, rankVars, addrVars, ingestVars, fetchVars, gridVars>>

(***************************************************************************)
(* Bounds                                                                  *)
(***************************************************************************)
MaxRuns == 2      \* score_house calls in one behaviour

HouseIds == {"h1", "h2"}

(***************************************************************************)
(* JSON values as the parsers see them.  A scalar field is absent from    *)
(* its object, null, a string or a number; a list field is absent, null,  *)
(* a number, a string or a list of items; an item is an object or not.    *)
(***************************************************************************)
Absent == [k |-> "absent", n |-> 0, s |-> ""]
Null == [k |-> "null", n |-> 0, s |-> ""]
Num(x) == [k |-> "num", n |-> x, s |-> ""]
Str(x) == [k |-> "str", n |-> 0, s |-> x]

NoList == [k |-> "absent", items |-> <<>>]
NullList == [k |-> "null", items |-> <<>>]
NumList == [k |-> "num", items |-> <<>>]
StrList == [k |-> "str", items |-> <<>>]
List(xs) == [k |-> "list", items |-> xs]

NotAnObject ==
    [k |-> "num", score |-> Absent, weight |-> Absent,
     aesthetic_quality |-> Absent, difficulty |-> Absent]
DimItem(sc, w) ==
    [k |-> "obj", score |-> sc, weight |-> w,
     aesthetic_quality |-> Absent, difficulty |-> Absent]
RoomItem(q) ==
    [k |-> "obj", score |-> Absent, weight |-> Absent,
     aesthetic_quality |-> q, difficulty |-> Absent]
IdeaItem(d) ==
    [k |-> "obj", score |-> Absent, weight |-> Absent,
     aesthetic_quality |-> Absent, difficulty |-> d]

EmptyObject ==
    [kind |-> "object", score |-> Absent, dimension_scores |-> NoList,
     overall_aesthetic |-> Absent, rooms |-> NoList,
     feasibility |-> Absent, renovation_ideas |-> NoList]
JsonScalar == [EmptyObject EXCEPT !.kind = "scalar"]
JsonArray == [EmptyObject EXCEPT !.kind = "array"]
NoJson == [EmptyObject EXCEPT !.kind = "none"]

\* dict.get(key, default)
Get(field, default) == IF field.k = "absent" THEN default ELSE field

(***************************************************************************)
(* A response is a sequence of tokens: prose, a ```json fence, a bare ```  *)
(* fence, a JSON document, or a JSON document that lost its last          *)
(* character.                                                              *)
(***************************************************************************)
Prose == [tok |-> "prose", val |-> NoJson]
FenceJson == [tok |-> "fence_json", val |-> NoJson]
Fence == [tok |-> "fence", val |-> NoJson]
Truncated == [tok |-> "trunc", val |-> NoJson]
Json(v) == [tok |-> "json", val |-> v]

\* str.find(sub) over tokens: first position >= from holding one of toks, 0 if none
Find(resp, toks, from) ==
    LET hits == {i \in from..Len(resp) : resp[i].tok \in toks}
    IN  IF hits = {} THEN 0 ELSE CHOOSE i \in hits : \A j \in hits : i <= j

\* response[start:end] with end = -1 when the closing fence is missing:
\* the slice then loses the last character of the response
Slice(resp, open) ==
    LET close == Find(resp, {"fence", "fence_json"}, open + 1)
    IN  IF close # 0
        THEN SubSeq(resp, open + 1, close - 1)
        ELSE IF open + 1 > Len(resp) THEN <<>>
        ELSE [i \in 1..(Len(resp) - open) |->
                 IF i < Len(resp) - open \/ resp[open + i].tok = "prose"
                 THEN resp[open + i]
                 ELSE Truncated]

\* the fenced-block extraction shared by the three parsers
Extract(resp) ==
    IF Find(resp, {"fence_json"}, 1) # 0
    THEN Slice(resp, Find(resp, {"fence_json"}, 1))
    ELSE IF Find(resp, {"fence"}, 1) # 0
    THEN Slice(resp, Find(resp, {"fence"}, 1))
    ELSE resp

\* json.loads: a value when the text is exactly one JSON document
JsonLoads(resp) ==
    IF Len(resp) = 1 /\ resp[1].tok = "json" THEN resp[1].val ELSE NoJson

IsJson(resp) == JsonLoads(Extract(resp)).kind # "none"

(***************************************************************************)
(* Artifacts (models/scores.py).  "set" is FALSE for None; "by" is the     *)
(* score_house call that computed the artifact (0 straight out of a        *)
(* parser).                                                                *)
(***************************************************************************)
NoVision ==
    [set |-> FALSE, by |-> 0, rooms |-> <<>>, overall_aesthetic |-> 0,
     raw_description |-> ""]
NoPresentFit ==
    [set |-> FALSE, by |-> 0, score |-> 0, passed |-> FALSE,
     dimension_scores |-> <<>>, justification |-> ""]
NoPotential ==
    [set |-> FALSE, by |-> 0, score |-> 0, renovation_ideas |-> <<>>,
     feasibility |-> "", cost_class |-> "", upside_narrative |-> ""]

\* pydantic Field(ge=lo, le=hi) on a float field
ValidFloat(field, lo, hi) == field.k = "num" /\ lo <= field.n /\ field.n <= hi
\* pydantic str field
ValidStr(field) == field.k = "str"

Min(a, b) == IF a <= b THEN a ELSE b
Max(a, b) == IF a >= b THEN a ELSE b

Returned(a) == [exc |-> "", art |-> a]
Raised(e, none) == [exc |-> e, art |-> none]

(***************************************************************************)
(* PresentFitAgent._parse_response                                         *)
(***************************************************************************)
\* variant: the 0-100 scale is not recognised
ClampDimScore_NoRescale(raw) == Min(1000, Max(0, raw * 10))

\* min(10.0, max(0.0, raw_score if raw_score <= 10 else raw_score / 10))
ClampDimScore(raw) == Min(1000, Max(0, IF raw <= 100 THEN raw * 10 ELSE raw))

\* min(1.0, max(0.0, ds.get("weight", 0.1)))
ClampWeight(w) == Min(100, Max(0, w))

RECURSIVE DimLoop(_, _)
DimLoop(items, acc) ==
    IF items = <<>> THEN [exc |-> "", out |-> acc]
    ELSE LET ds == Head(items)
             raw == Get(ds.score, Num(50))
             w == Get(ds.weight, Num(10))
         IN  IF ds.k # "obj" THEN [exc |-> "AttributeError", out |-> acc]
             ELSE IF raw.k # "num" \/ w.k # "num"
             THEN [exc |-> "TypeError", out |-> acc]
             ELSE DimLoop(Tail(items),
                          Append(acc, [score |-> ClampDimScore(raw.n),
                                       weight |-> ClampWeight(w.n)]))

\* for x in data.get(key, []): ...; looped is what the loop body does with a list
Iterate(field, looped) ==
    CASE field.k = "absent" -> [exc |-> "", out |-> <<>>]
      [] field.k \in {"null", "num"} -> [exc |-> "TypeError", out |-> <<>>]
      [] field.k = "str" -> [exc |-> "AttributeError", out |-> <<>>]
      [] field.k = "list" -> looped

PresentFitFallback ==
    [set |-> TRUE, by |-> 0, score |-> 50, passed |-> TRUE,
     dimension_scores |-> <<>>, justification |-> "Scoring parse error. Raw: "]

PresentFitFromData(data) ==
    LET dims == Iterate(data.dimension_scores, DimLoop(data.dimension_scores.items, <<>>))
        score == Get(data.score, Num(50))
    IN  IF dims.exc = "TypeError" THEN Returned(PresentFitFallback)
        ELSE IF dims.exc # "" THEN Raised(dims.exc, NoPresentFit)
        ELSE IF ~ValidFloat(score, 0, 100)
        THEN Raised("ValidationError", NoPresentFit)
        ELSE Returned([set |-> TRUE, by |-> 0, score |-> score.n,
                       passed |-> TRUE, dimension_scores |-> dims.out,
                       justification |-> "model"])

\* variant: a response that is not JSON is not caught
PresentFitParse_Strict(response) ==
    LET data == JsonLoads(Extract(response))
    IN  IF data.kind = "none" THEN Raised("JSONDecodeError", NoPresentFit)
        ELSE IF data.kind # "object" THEN Raised("AttributeError", NoPresentFit)
        ELSE PresentFitFromData(data)

PresentFitParse(response) ==
    LET data == JsonLoads(Extract(response))
    IN  IF data.kind = "none" THEN Returned(PresentFitFallback)
        ELSE IF data.kind # "object" THEN Raised("AttributeError", NoPresentFit)
        ELSE PresentFitFromData(data)

(***************************************************************************)
(* VisionAgent._parse_response                                             *)
(***************************************************************************)
RECURSIVE RoomLoop(_, _)
RoomLoop(items, acc) ==
    IF items = <<>> THEN [exc |-> "", out |-> acc]
    ELSE LET room_data == Head(items)
             q == Get(room_data.aesthetic_quality, Num(5))
         IN  IF room_data.k # "obj" THEN [exc |-> "AttributeError", out |-> acc]
             ELSE IF ~ValidFloat(q, 1, 10)
             THEN [exc |-> "ValidationError", out |-> acc]
             ELSE RoomLoop(Tail(items), Append(acc, q.n))

VisionFallback ==
    [set |-> TRUE, by |-> 0, rooms |-> <<>>, overall_aesthetic |-> 5,
     raw_description |-> "Parse error. Raw response: "]

VisionFromData(data) ==
    LET rooms == Iterate(data.rooms, RoomLoop(data.rooms.items, <<>>))
        overall == Get(data.overall_aesthetic, Num(5))
    IN  IF rooms.exc = "TypeError" THEN Returned(VisionFallback)
        ELSE IF rooms.exc # "" THEN Raised(rooms.exc, NoVision)
        ELSE IF ~ValidFloat(overall, 1, 10)
        THEN Raised("ValidationError", NoVision)
        ELSE Returned([set |-> TRUE, by |-> 0, rooms |-> rooms.out,
                       overall_aesthetic |-> overall.n,
                       raw_description |-> ""])

VisionParse(response) ==
    LET data == JsonLoads(Extract(response))
    IN  IF data.kind = "none" THEN Returned(VisionFallback)
        ELSE IF data.kind # "object" THEN Raised("AttributeError", NoVision)
        ELSE VisionFromData(data)

(***************************************************************************)
(* PotentialAgent._parse_response                                          *)
(***************************************************************************)
RECURSIVE IdeaLoop(_, _)
IdeaLoop(items, acc) ==
    IF items = <<>> THEN [exc |-> "", out |-> acc]
    ELSE LET idea == Head(items)
             d == Get(idea.difficulty, Str("medium"))
         IN  IF idea.k # "obj" THEN [exc |-> "AttributeError", out |-> acc]
             ELSE IF ~ValidStr(d)
             THEN [exc |-> "ValidationError", out |-> acc]
             ELSE IdeaLoop(Tail(items), Append(acc, d.s))

PotentialFallback ==
    [set |-> TRUE, by |-> 0, score |-> 50, renovation_ideas |-> <<>>,
     feasibility |-> "unknown", cost_class |-> "unknown",
     upside_narrative |-> "Parse error. Raw: "]

PotentialFromData(data) ==
    LET ideas == Iterate(data.renovation_ideas, IdeaLoop(data.renovation_ideas.items, <<>>))
        score == Get(data.score, Num(50))
        feasibility == Get(data.feasibility, Str("medium"))
    IN  IF ideas.exc = "TypeError" THEN Returned(PotentialFallback)
        ELSE IF ideas.exc # "" THEN Raised(ideas.exc, NoPotential)
        ELSE IF ~ValidFloat(score, 0, 100) \/ ~ValidStr(feasibility)
        THEN Raised("ValidationError", NoPotential)
        ELSE Returned([set |-> TRUE, by |-> 0, score |-> score.n,
                       renovation_ideas |-> ideas.out,
                       feasibility |-> feasibility.s,
                       cost_class |-> "$50-100k", upside_narrative |-> ""])

PotentialParse(response) ==
    LET data == JsonLoads(Extract(response))
    IN  IF data.kind = "none" THEN Returned(PotentialFallback)
        ELSE IF data.kind # "object" THEN Raised("AttributeError", NoPotential)
        ELSE PotentialFromData(data)

(***************************************************************************)
(* Responses the model may return                                          *)
(***************************************************************************)
MaxItems == 2     \* length of a list inside a payload
MaxTokens == 3    \* tokens of a response whose shape is unconstrained

SeqsUpTo(S, n) == UNION {[1..m -> S] : m \in 0..n}

AggregateVals ==
    {Absent, Null, Str("high"), Num(-5), Num(0), Num(72), Num(100), Num(150)}
DimScoreVals ==
    {Absent, Null, Str("8/10"), Num(-10), Num(0), Num(85), Num(100),
     Num(101), Num(850), Num(1000), Num(2500)}
WeightVals == {Absent, Str("high"), Num(-5), Num(0), Num(15), Num(100), Num(250)}
QualityVals == {Absent, Null, Num(0), Num(1), Num(7), Num(10), Num(11)}
LevelVals ==
    {Absent, Num(2), Str("light"), Str("medium"), Str("heavy"), Str("extreme")}

DimItems ==
    {DimItem(sc, Num(15)) : sc \in DimScoreVals}
        \cup {DimItem(Num(85), w) : w \in WeightVals} \cup {NotAnObject}
RoomItems == {RoomItem(q) : q \in QualityVals} \cup {NotAnObject}
IdeaItems == {IdeaItem(d) : d \in LevelVals} \cup {NotAnObject}

ListsOf(items) ==
    {NoList, NullList, NumList, StrList}
        \cup {List(xs) : xs \in SeqsUpTo(items, MaxItems)}

PresentFitObjects ==
    {[EmptyObject EXCEPT !.score = a] : a \in AggregateVals}
        \cup {[EmptyObject EXCEPT !.score = Num(72), !.dimension_scores = l] :
                 l \in ListsOf(DimItems)}
        \cup {[EmptyObject EXCEPT !.score = Num(150), !.dimension_scores = NullList]}
VisionObjects ==
    {[EmptyObject EXCEPT !.overall_aesthetic = q] : q \in QualityVals}
        \cup {[EmptyObject EXCEPT !.overall_aesthetic = Num(7), !.rooms = l] :
                 l \in ListsOf(RoomItems)}
PotentialObjects ==
    {[EmptyObject EXCEPT !.score = a, !.feasibility = f] :
         a \in {Absent, Num(-5), Num(60), Num(150)}, f \in LevelVals}
        \cup {[EmptyObject EXCEPT !.score = Num(60), !.renovation_ideas = l] :
                 l \in ListsOf(IdeaItems)}

Payloads ==
    PresentFitObjects \cup VisionObjects \cup PotentialObjects
        \cup {JsonScalar, JsonArray}

\* a response of any shape around a few payloads
FewPayloads ==
    {JsonScalar, JsonArray,
     [EmptyObject EXCEPT !.score = Num(72), !.overall_aesthetic = Num(7)],
     [EmptyObject EXCEPT !.score = Num(150), !.overall_aesthetic = Num(11)]}
AnyShape ==
    UNION {SeqsUpTo({Prose, FenceJson, Fence, Json(v)}, MaxTokens) :
               v \in FewPayloads}

\* the usual shapes around every payload
Bare(v) == <<Json(v)>>
Fenced(v) == <<Prose, FenceJson, Json(v), Fence, Prose>>
Texts == AnyShape \cup {Bare(v) : v \in Payloads} \cup {Fenced(v) : v \in Payloads}

(***************************************************************************)
(* The parsers on their own: a response is drawn, one parser is applied.   *)
(***************************************************************************)
NotParsed == [exc |-> "pending", art |-> NoVision]

ParseVision ==
    /\ parser = "vision" /\ parsed = NotParsed
    /\ parsed' = VisionParse(text)
    /\ UNCHANGED <<text, parser>>
    /\ UNCHANGED pipeVars
    /\ UNCHANGED libVars

ParsePresentFit ==
    /\ parser = "present_fit" /\ parsed = NotParsed
    /\ parsed' = PresentFitParse(text)
    /\ UNCHANGED <<text, parser>>
    /\ UNCHANGED pipeVars
    /\ UNCHANGED libVars

ParsePotential ==
    /\ parser = "potential" /\ parsed = NotParsed
    /\ parsed' = PotentialParse(text)
    /\ UNCHANGED <<text, parser>>
    /\ UNCHANGED pipeVars
    /\ UNCHANGED libVars

(***************************************************************************)
(* The store (storage/json_store.py) and the House it holds                *)
(***************************************************************************)
NoBrief == [text |-> "", by |-> 0]

\* has_images stands for image_urls; user_verdict "" is None; the times count
\* from 1 and scored_at 0 is None
NewHouse(id, with_images) ==
    [id |-> id, address |-> id, has_images |-> with_images,
     vision_analysis |-> NoVision,
     present_fit_score |-> NoPresentFit, potential_score |-> NoPotential,
     brief |-> NoBrief, annotations |-> <<>>, user_verdict |-> "",
     ingested_at |-> 1, scored_at |-> 0]

NoHouse == NewHouse("", FALSE)

NoFile == [file |-> "missing", doc |-> NoHouse]
BadFile == [file |-> "corrupt", doc |-> NoHouse]
File(h) == [file |-> "ok", doc |-> h]

\* save_house: the file named after house.id is overwritten with the document
SaveHouse(st, h) == [st EXCEPT ![h.id] = File(h)]

\* save_house killed between open(file_path, "w") and the end of json.dump
TornSave(st, h) == [st EXCEPT ![h.id] = BadFile]

\* load_house: None for a missing file, an exception for an unreadable one
LoadHouse(st, id) ==
    CASE st[id].file = "missing" -> [exc |-> "", found |-> FALSE, doc |-> NoHouse]
      [] st[id].file = "corrupt" -> [exc |-> "JSONDecodeError", found |-> FALSE, doc |-> NoHouse]
      [] st[id].file = "ok" -> [exc |-> "", found |-> TRUE, doc |-> st[id].doc]

(***************************************************************************)
(* What the model answers inside a pipeline run                            *)
(***************************************************************************)
GoodPayload ==
    [EmptyObject EXCEPT !.score = Num(72), !.overall_aesthetic = Num(7),
                        !.dimension_scores = List(<<DimItem(Num(850), Num(15))>>),
                        !.rooms = List(<<RoomItem(Num(8))>>),
                        !.feasibility = Str("medium"),
                        !.renovation_ideas = List(<<IdeaItem(Str("light"))>>)]
OutOfRangePayload ==
    [EmptyObject EXCEPT !.score = Num(150), !.overall_aesthetic = Num(11)]

PipeTexts ==
    {<<Prose>>, <<FenceJson, Json(GoodPayload)>>, Bare(JsonArray),
     Fenced(GoodPayload), Bare(OutOfRangePayload)}

BriefTexts == {"md", ""}

NoStages == [k \in 1..4 |-> "none"]
NoResults == [i \in HouseIds |-> "none"]

(***************************************************************************)
(* Orchestrator.score_house                                                *)
(***************************************************************************)
batchVars == <<bpc, queue, asked, results, success, defaulted>>

\* lines 37-40: the call starts, the house is looked up
Enter(id) ==
    /\ run < MaxRuns
    /\ run' = run + 1
    /\ cur' = id
    /\ stageOut' = NoStages
    /\ trace' = <<>>
    /\ house' = NoHouse
    /\ LET h == LoadHouse(store, id)
       IN  /\ before' = h.doc
           /\ IF h.exc # "" THEN pc' = "done" /\ ret' = "raised"
              ELSE IF ~h.found THEN pc' = "done" /\ ret' = "false"
              ELSE pc' = "s1" /\ ret' = "none"
    /\ text' = <<>> /\ parser' = "none" /\ parsed' = NotParsed
    /\ UNCHANGED <<store, taste>>
    /\ UNCHANGED libVars

ScoreHouse(id) ==
    /\ pc \in {"idle", "done"}
    /\ bpc \in {"none", "returned", "raised"}
    /\ bpc' = "none"
    /\ queue' = <<>> /\ asked' = <<>> /\ results' = NoResults /\ success' = 0
    /\ defaulted' = FALSE
    /\ Enter(id)

\* a required stage failed: return False
Abort(k, why) ==
    /\ stageOut' = [stageOut EXCEPT ![k] = why]
    /\ ret' = "false"
    /\ pc' = "done"
    /\ house' = NoHouse

\* a stage ended and the pipeline goes on
Continue(k, how, next) ==
    /\ stageOut' = [stageOut EXCEPT ![k] = how]
    /\ pc' = next
    /\ ret' = IF next = "done" THEN "true" ELSE "none"
    /\ house' = NoHouse

Frame == UNCHANGED <<cur, run, before>> /\ UNCHANGED batchVars /\ UNCHANGED libVars

\* the previous stage's response is gone when the next agent starts
Forget == text' = <<>> /\ parser' = "none" /\ parsed' = NotParsed

\* the agent has the model's response parsed
Read(agent, response, p) == text' = response /\ parser' = agent /\ parsed' = p

(***************************************************************************)
(* Stage 1: VisionAgent.analyze, lines 47-57 of the orchestrator           *)
(***************************************************************************)
VisionLoad ==
    /\ pc = "s1"
    /\ trace' = Append(trace, 1)
    /\ LET h == LoadHouse(store, cur)
       IN  IF h.exc # "" THEN Abort(1, "load")
           ELSE IF ~h.found THEN Continue(1, "skipped", "s2")
           ELSE /\ house' = h.doc
                /\ pc' = "s1_loaded"
                /\ UNCHANGED <<stageOut, ret>>
    /\ UNCHANGED <<store, taste>>
    /\ Forget
    /\ Frame

\* variant: a house without images is passed over and nothing is saved
VisionNoImages_Skips ==
    /\ pc = "s1_loaded" /\ ~house.has_images
    /\ Continue(1, "skipped", "s2")
    /\ UNCHANGED <<store, taste, trace>>
    /\ UNCHANGED parseVars
    /\ Frame

\* no image_urls: the placeholder analysis is saved
VisionNoImages ==
    /\ pc = "s1_loaded" /\ ~house.has_images
    /\ store' = SaveHouse(store,
           [house EXCEPT !.vision_analysis =
               [set |-> TRUE, by |-> run, rooms |-> <<>>, overall_aesthetic |-> 5,
                raw_description |-> "No images available for analysis"]])
    /\ Continue(1, "ok", "s2")
    /\ UNCHANGED <<taste, trace>>
    /\ UNCHANGED parseVars
    /\ Frame

\* create_composite_sync or openrouter.vision raises
VisionCallRaises ==
    /\ pc = "s1_loaded" /\ house.has_images
    /\ Abort(1, "upstream")
    /\ UNCHANGED <<store, taste, trace>>
    /\ UNCHANGED parseVars
    /\ Frame

\* variant: the analysis is returned without being saved
VisionStore_NoSave(response) ==
    LET p == VisionParse(response)
    IN  /\ Read("vision", response, p)
        /\ UNCHANGED store
        /\ IF p.exc # "" THEN Abort(1, "parse") ELSE Continue(1, "ok", "s2")

VisionStore(response) ==
    LET p == VisionParse(response)
    IN  /\ Read("vision", response, p)
        /\ IF p.exc # ""
           THEN Abort(1, "parse") /\ UNCHANGED store
           ELSE /\ store' = SaveHouse(store,
                       [house EXCEPT !.vision_analysis =
                           [p.art EXCEPT !.by = run, !.raw_description = "response"]])
                /\ Continue(1, "ok", "s2")

VisionResponds ==
    /\ pc = "s1_loaded" /\ house.has_images
    /\ \E response \in PipeTexts : VisionStore(response)
    /\ UNCHANGED <<taste, trace>>
    /\ Frame

(***************************************************************************)
(* Stage 2: PresentFitAgent.score, lines 59-73 of the orchestrator         *)
(***************************************************************************)
PresentFitLoad ==
    /\ pc = "s2"
    /\ trace' = Append(trace, 2)
    /\ LET h == LoadHouse(store, cur)
       IN  IF h.exc # "" THEN Abort(2, "load") /\ UNCHANGED taste
           ELSE IF ~h.found THEN Abort(2, "skipped") /\ UNCHANGED taste
           ELSE /\ taste' = "present"
                /\ IF ~h.doc.vision_analysis.set
                   THEN Abort(2, "skipped")
                   ELSE /\ house' = h.doc
                        /\ pc' = "s2_loaded"
                        /\ UNCHANGED <<stageOut, ret>>
    /\ UNCHANGED store
    /\ Forget
    /\ Frame

\* variant: a failed present-fit call is treated as optional
PresentFitCallRaises_Continues ==
    /\ pc = "s2_loaded"
    /\ Continue(2, "upstream", "s3")
    /\ UNCHANGED <<store, taste, trace>>
    /\ UNCHANGED parseVars
    /\ Frame

PresentFitCallRaises ==
    /\ pc = "s2_loaded"
    /\ Abort(2, "upstream")
    /\ UNCHANGED <<store, taste, trace>>
    /\ UNCHANGED parseVars
    /\ Frame

\* variant: the record is stamped anew when it is scored
PresentFitStore_Restamps(response) ==
    LET p == PresentFitParse(response)
    IN  /\ Read("present_fit", response, p)
        /\ IF p.exc # ""
           THEN Abort(2, "parse") /\ UNCHANGED store
           ELSE /\ store' = SaveHouse(store,
                       [house EXCEPT !.present_fit_score = [p.art EXCEPT !.by = run],
                                     !.scored_at = run,
                                     !.ingested_at = run + 1])
                /\ Continue(2, "ok", "s3")

PresentFitStore(response) ==
    LET p == PresentFitParse(response)
    IN  /\ Read("present_fit", response, p)
        /\ IF p.exc # ""
           THEN Abort(2, "parse") /\ UNCHANGED store
           ELSE /\ store' = SaveHouse(store,
                       [house EXCEPT !.present_fit_score = [p.art EXCEPT !.by = run],
                                     !.scored_at = run])
                /\ Continue(2, "ok", "s3")

PresentFitResponds ==
    /\ pc = "s2_loaded"
    /\ \E response \in PipeTexts : PresentFitStore(response)
    /\ UNCHANGED <<taste, trace>>
    /\ Frame

(***************************************************************************)
(* Stage 3: PotentialAgent.score, lines 75-88 of the orchestrator          *)
(***************************************************************************)
\* variant: a house that already has a potential score is not scored again
PotentialLoad_SkipsPopulated ==
    /\ pc = "s3"
    /\ trace' = Append(trace, 3)
    /\ LET h == LoadHouse(store, cur)
       IN  IF h.exc # "" THEN Continue(3, "load", "s4") /\ UNCHANGED taste
           ELSE IF ~h.found THEN Continue(3, "skipped", "s4") /\ UNCHANGED taste
           ELSE /\ taste' = "present"
                /\ IF ~h.doc.vision_analysis.set
                   THEN Continue(3, "skipped", "s4")
                   ELSE IF h.doc.potential_score.set
                   THEN Continue(3, "ok", "s4")
                   ELSE /\ house' = h.doc
                        /\ pc' = "s3_loaded"
                        /\ UNCHANGED <<stageOut, ret>>
    /\ UNCHANGED store
    /\ Forget
    /\ Frame

PotentialLoad ==
    /\ pc = "s3"
    /\ trace' = Append(trace, 3)
    /\ LET h == LoadHouse(store, cur)
       IN  IF h.exc # "" THEN Continue(3, "load", "s4") /\ UNCHANGED taste
           ELSE IF ~h.found THEN Continue(3, "skipped", "s4") /\ UNCHANGED taste
           ELSE /\ taste' = "present"
                /\ IF ~h.doc.vision_analysis.set
                   THEN Continue(3, "skipped", "s4")
                   ELSE /\ house' = h.doc
                        /\ pc' = "s3_loaded"
                        /\ UNCHANGED <<stageOut, ret>>
    /\ UNCHANGED store
    /\ Forget
    /\ Frame

\* variant: a failed potential call ends the run
PotentialCallRaises_Aborts ==
    /\ pc = "s3_loaded"
    /\ Abort(3, "upstream")
    /\ UNCHANGED <<store, taste, trace>>
    /\ UNCHANGED parseVars
    /\ Frame

\* "Continue anyway, potential is optional"
PotentialCallRaises ==
    /\ pc = "s3_loaded"
    /\ Continue(3, "upstream", "s4")
    /\ UNCHANGED <<store, taste, trace>>
    /\ UNCHANGED parseVars
    /\ Frame

\* variant: the potential score is reset before the response is parsed
PotentialStore_ResetsFirst(response) ==
    LET p == PotentialParse(response)
    IN  /\ Read("potential", response, p)
        /\ IF p.exc # ""
           THEN /\ store' = SaveHouse(store, [house EXCEPT !.potential_score = NoPotential])
                /\ Continue(3, "parse", "s4")
           ELSE /\ store' = SaveHouse(store,
                       [house EXCEPT !.potential_score = [p.art EXCEPT !.by = run]])
                /\ Continue(3, "ok", "s4")

PotentialStore(response) ==
    LET p == PotentialParse(response)
    IN  /\ Read("potential", response, p)
        /\ IF p.exc # ""
           THEN Continue(3, "parse", "s4") /\ UNCHANGED store
           ELSE /\ store' = SaveHouse(store,
                       [house EXCEPT !.potential_score = [p.art EXCEPT !.by = run]])
                /\ Continue(3, "ok", "s4")

PotentialResponds ==
    /\ pc = "s3_loaded"
    /\ \E response \in PipeTexts : PotentialStore(response)
    /\ UNCHANGED <<taste, trace>>
    /\ Frame

(***************************************************************************)
(* Stage 4: BriefAgent.generate, lines 90-102 of the orchestrator          *)
(***************************************************************************)
BriefLoad ==
    /\ pc = "s4"
    /\ trace' = Append(trace, 4)
    /\ LET h == LoadHouse(store, cur)
       IN  IF h.exc # "" THEN Continue(4, "load", "done") /\ UNCHANGED taste
           ELSE IF ~h.found THEN Continue(4, "skipped", "done") /\ UNCHANGED taste
           ELSE /\ taste' = "present"
                /\ house' = h.doc
                /\ pc' = "s4_loaded"
                /\ UNCHANGED <<stageOut, ret>>
    /\ UNCHANGED store
    /\ Forget
    /\ Frame

\* variant: the slot is emptied when the call is made and filled when it answers
BriefCallRaises_Cleared ==
    /\ pc = "s4_loaded"
    /\ store' = SaveHouse(store, [house EXCEPT !.brief = NoBrief])
    /\ Continue(4, "upstream", "done")
    /\ UNCHANGED <<taste, trace>>
    /\ UNCHANGED parseVars
    /\ Frame

\* "Continue anyway, brief is optional"
BriefCallRaises ==
    /\ pc = "s4_loaded"
    /\ Continue(4, "upstream", "done")
    /\ UNCHANGED <<store, taste, trace>>
    /\ UNCHANGED parseVars
    /\ Frame

\* the response is stored as it is; an empty one reads as "skipped"
BriefStore(response) ==
    /\ store' = SaveHouse(store,
           [house EXCEPT !.brief = [text |-> response, by |-> run]])
    /\ Continue(4, IF response = "" THEN "skipped" ELSE "ok", "done")

BriefResponds ==
    /\ pc = "s4_loaded"
    /\ \E response \in BriefTexts : BriefStore(response)
    /\ UNCHANGED <<taste, trace>>
    /\ UNCHANGED parseVars
    /\ Frame

(***************************************************************************)
(* The process is killed while an agent's save_house has the file open:    *)
(* open(file_path, "w") has truncated it and json.dump has not finished.   *)
(***************************************************************************)
KilledInSave ==
    /\ pc \in {"s1_loaded", "s2_loaded", "s3_loaded", "s4_loaded"}
    /\ store' = TornSave(store, house)
    /\ pc' = "idle"
    /\ ret' = "none"
    /\ house' = NoHouse
    /\ stageOut' = NoStages
    /\ trace' = <<>>
    /\ bpc' = "none"
    /\ queue' = <<>>
    /\ asked' = <<>>
    /\ results' = NoResults
    /\ success' = 0
    /\ before' = NoHouse
    /\ defaulted' = FALSE
    /\ UNCHANGED <<taste, cur, run>>
    /\ UNCHANGED parseVars
    /\ UNCHANGED libVars

(***************************************************************************)
(* Orchestrator.batch_score with an explicit list of ids                   *)
(***************************************************************************)
\* sum(results.values())
CountTrue(res) == Cardinality({i \in HouseIds : res[i] = "true"})

\* lines 117-123: an empty list returns {} at once
BatchScore(house_ids) ==
    /\ pc \in {"idle", "done"}
    /\ bpc \in {"none", "returned", "raised"}
    /\ run + Len(house_ids) <= MaxRuns
    /\ before' = NoHouse
    /\ text' = <<>> /\ parser' = "none" /\ parsed' = NotParsed
    /\ asked' = house_ids
    /\ queue' = house_ids
    /\ results' = NoResults
    /\ success' = 0
    /\ bpc' = IF house_ids = <<>> THEN "returned" ELSE "loop"
    /\ pc' = "idle"
    /\ ret' = "none"
    /\ defaulted' = FALSE
    /\ UNCHANGED <<store, taste, cur, house, run, stageOut, trace>>
    /\ UNCHANGED libVars

\* list_houses (json_store.py:41-48): json.load raises on an unreadable file;
\* the latest ingested comes first, and h2 was ingested after h1
ListHouses(st) ==
    IF \E i \in HouseIds : st[i].file = "corrupt"
    THEN [exc |-> "JSONDecodeError", houses |-> <<>>]
    ELSE LET there == SelectSeq(<<"h2", "h1">>, LAMBDA i : st[i].file = "ok")
         IN  [exc |-> "", houses |-> [n \in 1..Len(there) |-> st[there[n]].doc]]

\* variant: every house is listed, scored or not
GetUnscoredHouses_All(st) == ListHouses(st)

\* get_unscored_houses (json_store.py:181-183)
GetUnscoredHouses(st) ==
    [ListHouses(st) EXCEPT
        !.houses = SelectSeq(@, LAMBDA h : ~h.present_fit_score.set)]

\* lines 113-123 with house_ids = None: the ids of the unscored houses
BatchScoreAll ==
    /\ pc \in {"idle", "done"}
    /\ bpc \in {"none", "returned", "raised"}
    /\ LET listing == GetUnscoredHouses(store)
           house_ids == [n \in 1..Len(listing.houses) |-> listing.houses[n].id]
       IN  /\ run + Len(house_ids) <= MaxRuns
           /\ asked' = house_ids
           /\ queue' = house_ids
           /\ bpc' = IF listing.exc # "" THEN "raised"
                      ELSE IF house_ids = <<>> THEN "returned" ELSE "loop"
    /\ before' = NoHouse
    /\ text' = <<>> /\ parser' = "none" /\ parsed' = NotParsed
    /\ results' = NoResults
    /\ success' = 0
    /\ pc' = "idle"
    /\ ret' = "none"
    /\ defaulted' = TRUE
    /\ UNCHANGED <<store, taste, cur, house, run, stageOut, trace>>
    /\ UNCHANGED libVars

\* lines 124-127: load_house for the progress line, then score_house
BatchNext ==
    /\ bpc = "loop" /\ queue # <<>>
    /\ IF LoadHouse(store, Head(queue)).exc # ""
       THEN /\ bpc' = "raised"
            /\ UNCHANGED <<store, taste, pc, cur, house, ret, run, stageOut, trace, before>>
            /\ UNCHANGED parseVars
            /\ UNCHANGED libVars
       ELSE /\ bpc' = "running"
            /\ Enter(Head(queue))
    /\ UNCHANGED <<queue, asked, results, success, defaulted>>

\* line 127: results[house_id] = the value score_house returned
BatchCollect ==
    /\ bpc = "running" /\ pc = "done"
    /\ IF ret = "raised"
       THEN bpc' = "raised" /\ UNCHANGED <<queue, results>>
       ELSE /\ bpc' = "loop"
            /\ results' = [results EXCEPT ![cur] = ret]
            /\ queue' = Tail(queue)
    /\ pc' = "idle"
    /\ ret' = "none" /\ stageOut' = NoStages /\ trace' = <<>> /\ before' = NoHouse
    /\ Forget
    /\ UNCHANGED <<store, taste, cur, house, run, asked, success, defaulted>>
    /\ UNCHANGED libVars

\* lines 129-133
BatchReturn ==
    /\ bpc = "loop" /\ queue = <<>>
    /\ success' = CountTrue(results)
    /\ bpc' = "returned"
    /\ UNCHANGED <<store, taste, pc, cur, house, ret, run, stageOut, trace, before,
                   queue, asked, results, defaulted>>
    /\ UNCHANGED parseVars
    /\ UNCHANGED libVars

(***************************************************************************)
(* Orchestrator.get_rankings over JsonStore.get_scored_houses.  The houses *)
(* directory is the sequence of files glob("*.json") yields; a file holds  *)
(* a house or, after a killed save, nothing readable.                      *)
(***************************************************************************)
MaxHouses == 3    \* files in the houses directory

NoScore == [set |-> FALSE, score |-> 0]
Score(x) == [set |-> TRUE, score |-> x]

Corrupt == [file |-> "corrupt", ingested_at |-> 0,
            present_fit_score |-> NoScore, potential_score |-> NoScore]
Scored(at, fit, pot) ==
    [file |-> "ok", ingested_at |-> at,
     present_fit_score |-> fit, potential_score |-> pot]

FileContents ==
    {Corrupt} \cup
    {Scored(at, fit, pot) :
        at \in 1..2,
        fit \in {NoScore, Score(60), Score(80), Score(90)},
        pot \in {NoScore, Score(70)}}

\* the file <id>.json holds a house whose id is <id>
Directory(contents) ==
    [n \in 1..Len(contents) |->
        [id |-> n, file |-> contents[n].file,
         ingested_at |-> contents[n].ingested_at,
         present_fit_score |-> contents[n].present_fit_score,
         potential_score |-> contents[n].potential_score]]

\* sorted(..., reverse=True) over <<key, item>> pairs: equal keys keep their order
RECURSIVE InsertDesc(_, _)
InsertDesc(pair, sorted) ==
    IF sorted = <<>> THEN <<pair>>
    ELSE IF Head(sorted)[1] >= pair[1]
         THEN <<Head(sorted)>> \o InsertDesc(pair, Tail(sorted))
         ELSE <<pair>> \o sorted

Reverse(seq) == [n \in 1..Len(seq) |-> seq[Len(seq) + 1 - n]]

RECURSIVE InsertAsc(_, _)
InsertAsc(pair, sorted) ==
    IF sorted = <<>> THEN <<pair>>
    ELSE IF Head(sorted)[1] <= pair[1]
         THEN <<Head(sorted)>> \o InsertAsc(pair, Tail(sorted))
         ELSE <<pair>> \o sorted

RECURSIVE SortAsc(_, _)
SortAsc(pairs, acc) ==
    IF pairs = <<>> THEN acc ELSE SortAsc(Tail(pairs), InsertAsc(Head(pairs), acc))

\* sorted(...)[::-1], which turns ties around
SortedFlipped(pairs) == Reverse(SortAsc(pairs, <<>>))

RECURSIVE SortedReverse(_, _)
SortedReverse(pairs, acc) ==
    IF pairs = <<>> THEN acc
    ELSE SortedReverse(Tail(pairs), InsertDesc(Head(pairs), acc))

Items(pairs) == [n \in 1..Len(pairs) |-> pairs[n][2]]

\* list_houses (json_store.py:41-48) over the directory
ListDirectory(dir) ==
    IF \E n \in 1..Len(dir) : dir[n].file = "corrupt"
    THEN [exc |-> "JSONDecodeError", houses |-> <<>>]
    ELSE [exc |-> "",
          houses |-> Items(SortedReverse(
                        [n \in 1..Len(dir) |-> <<dir[n].ingested_at, dir[n]>>], <<>>))]

\* get_scored_houses (json_store.py:185-192)
GetScoredHouses(houses) ==
    LET scored == SelectSeq(houses, LAMBDA h : h.present_fit_score.set)
    IN  Items(SortedReverse(
            [n \in 1..Len(scored) |->
                <<IF scored[n].present_fit_score.set
                  THEN scored[n].present_fit_score.score ELSE 0, scored[n]>>], <<>>))

\* variant: the tuples are sorted ascending and the result is reversed
Rank_Flipped(houses) ==
    LET rows == [n \in 1..Len(houses) |->
                    <<houses[n].id,
                      IF houses[n].present_fit_score.set
                      THEN houses[n].present_fit_score.score ELSE 0,
                      IF houses[n].potential_score.set
                      THEN houses[n].potential_score.score ELSE 0>>]
    IN  Items(SortedFlipped([n \in 1..Len(rows) |-> <<rows[n][2], rows[n]>>]))

\* lines 141-149 of the orchestrator: the tuples, sorted on their second field
Rank(houses) ==
    LET rows == [n \in 1..Len(houses) |->
                    <<houses[n].id,
                      IF houses[n].present_fit_score.set
                      THEN houses[n].present_fit_score.score ELSE 0,
                      IF houses[n].potential_score.set
                      THEN houses[n].potential_score.score ELSE 0>>]
    IN  Items(SortedReverse([n \in 1..Len(rows) |-> <<rows[n][2], rows[n]>>], <<>>))

NoRankings == [state |-> "none", rows |-> <<>>]

GetRankings ==
    /\ rankings.state = "none"
    /\ LET l == ListDirectory(files)
       IN  /\ listed' = l.houses
           /\ rankings' = IF l.exc # "" THEN [state |-> "raised", rows |-> <<>>]
                          ELSE [state |-> "returned",
                                rows |-> Rank(GetScoredHouses(l.houses))]
    /\ UNCHANGED files
    /\ UNCHANGED notRank

(***************************************************************************)
(* JsonStore.normalize_address, house_exists and find_house_by_address.    *)
(* An address is a sequence of one-character strings.                      *)
(***************************************************************************)
LowerCase == <<"a", "b", "c", "d", "e", "f", "g", "h", "i", "j", "k", "l", "m", "n", "o", "p", "q", "r", "s", "t", "u", "v", "w", "x", "y", "z">>
UpperCase == <<"A", "B", "C", "D", "E", "F", "G", "H", "I", "J", "K", "L", "M", "N", "O", "P", "Q", "R", "S", "T", "U", "V", "W", "X", "Y", "Z">>
Digits == {"0", "1", "2", "3", "4", "5", "6", "7", "8", "9"}

Letters == {LowerCase[n] : n \in 1..26} \cup {UpperCase[n] : n \in 1..26}

LowerOf ==
    [c \in Letters |->
        IF \E n \in 1..26 : UpperCase[n] = c
        THEN LowerCase[CHOOSE n \in 1..26 : UpperCase[n] = c]
        ELSE c]

\* str.lower, one character
Lower(c) == IF c \in Letters THEN LowerOf[c] ELSE c

\* str.isalnum, one character
IsAlnum(c) == c \in Digits \/ c \in Letters

\* what str.split() splits on
IsSpace(c) == c \in {" ", "\t"}

\* " ".join(addr.split()): runs of whitespace become one space, the ends are stripped
SplitJoin(addr) ==
    LET keep(n) == \/ ~IsSpace(addr[n])
                   \/ /\ n > 1 /\ ~IsSpace(addr[n - 1])
                      /\ \E m \in (n + 1)..Len(addr) : ~IsSpace(addr[m])
        kept == SelectSeq([n \in 1..Len(addr) |-> n], keep)
    IN  [n \in 1..Len(kept) |-> IF IsSpace(addr[kept[n]]) THEN " " ELSE addr[kept[n]]]

\* line 119: every character that is neither alphanumeric nor a space becomes a space
SpacePunctuation(addr) ==
    [n \in 1..Len(addr) |-> IF IsAlnum(addr[n]) \/ addr[n] = " " THEN addr[n] ELSE " "]

\* old occurs in addr at position n
At(addr, old, n) ==
    /\ n + Len(old) - 1 <= Len(addr)
    /\ \A k \in 1..Len(old) : addr[n + k - 1] = old[k]

\* str.replace: occurrences are taken left to right and do not overlap
RECURSIVE Replace(_, _, _)
Replace(addr, old, new) ==
    IF \A n \in 1..Len(addr) : ~At(addr, old, n) THEN addr
    ELSE LET n == CHOOSE n \in 1..Len(addr) :
                      At(addr, old, n) /\ \A m \in 1..(n - 1) : ~At(addr, old, m)
         IN  SubSeq(addr, 1, n - 1) \o new
             \o Replace(SubSeq(addr, n + Len(old), Len(addr)), old, new)

\* str.endswith
EndsWith(addr, suffix) ==
    /\ Len(addr) >= Len(suffix)
    /\ SubSeq(addr, Len(addr) - Len(suffix) + 1, Len(addr)) = suffix

\* the abbreviations of lines 121-140, in the order of the dict
Abbreviations ==
    <<<<<<"s", "t">>, <<"s", "t", "r", "e", "e", "t">>>>,
      <<<<"d", "r">>, <<"d", "r", "i", "v", "e">>>>,
      <<<<"a", "v", "e">>, <<"a", "v", "e", "n", "u", "e">>>>,
      <<<<"r", "d">>, <<"r", "o", "a", "d">>>>,
      <<<<"l", "n">>, <<"l", "a", "n", "e">>>>,
      <<<<"c", "t">>, <<"c", "o", "u", "r", "t">>>>,
      <<<<"c", "i", "r">>, <<"c", "i", "r", "c", "l", "e">>>>,
      <<<<"b", "l", "v", "d">>, <<"b", "o", "u", "l", "e", "v", "a", "r", "d">>>>,
      <<<<"p", "l">>, <<"p", "l", "a", "c", "e">>>>>>

\* lines 141-146 for one abbreviation: " st " anywhere, then " st" at the end
Expand(addr, abbr, full) ==
    LET inside == Replace(addr, <<" ">> \o abbr \o <<" ">>, <<" ">> \o full \o <<" ">>)
    IN  IF EndsWith(inside, <<" ">> \o abbr)
        THEN SubSeq(inside, 1, Len(inside) - Len(abbr) - 1) \o <<" ">> \o full
        ELSE inside

RECURSIVE ExpandAll(_, _)
ExpandAll(addr, n) ==
    IF n > Len(Abbreviations) THEN addr
    ELSE ExpandAll(Expand(addr, Abbreviations[n][1], Abbreviations[n][2]), n + 1)

\* normalize_address (json_store.py:114-148)
NormalizeAddress(addr) ==
    SplitJoin(ExpandAll(SpacePunctuation(SplitJoin([n \in 1..Len(addr) |-> Lower(addr[n])])), 1))

\* house_exists (json_store.py:150-156) over what list_houses returned
HouseExists(houses, addr) ==
    LET normalized == NormalizeAddress(addr)
    IN  \E n \in 1..Len(houses) : NormalizeAddress(houses[n].address) = normalized

NotFound == [id |-> "", address |-> <<>>]

\* find_house_by_address (json_store.py:158-164): the first match, or None
FindHouseByAddress(houses, addr) ==
    IF HouseExists(houses, addr)
    THEN houses[CHOOSE n \in 1..Len(houses) :
                   /\ NormalizeAddress(houses[n].address) = NormalizeAddress(addr)
                   /\ \A m \in 1..(n - 1) :
                          NormalizeAddress(houses[m].address) # NormalizeAddress(addr)]
    ELSE NotFound

(***************************************************************************)
(* Addresses as they are typed: words, each followed by a separator.  A    *)
(* word comes with its spelling in lower case without punctuation, as the  *)
(* first word of an address and elsewhere (where "st" stands for street).  *)
(***************************************************************************)
MaxWords == 4     \* words in an address

Street == <<"s", "t", "r", "e", "e", "t">>

Word(typed, first, later) == [text |-> typed, first |-> first, later |-> later]

Words ==
    {Word(<<"1">>, <<"1">>, <<"1">>),
     Word(<<"X">>, <<"x">>, <<"x">>),
     Word(<<"s", "t">>, <<"s", "t">>, Street),
     Word(<<"S", "t", ".">>, <<"s", "t">>, Street),
     Word(Street, Street, Street)}

Separators == {<<" ">>, <<",", " ">>}

RECURSIVE Typed(_, _, _)
Typed(words, seps, n) ==
    IF n > Len(words) THEN <<>>
    ELSE words[n].text \o (IF n < Len(words) THEN seps[n] ELSE <<>>)
         \o Typed(words, seps, n + 1)

RECURSIVE Plain(_, _)
Plain(words, n) ==
    IF n > Len(words) THEN <<>>
    ELSE (IF n = 1 THEN words[n].first ELSE words[n].later)
         \o (IF n < Len(words) THEN <<" ">> ELSE <<>>)
         \o Plain(words, n + 1)

NormalizeOnce ==
    /\ apc = "typed"
    /\ once' = NormalizeAddress(address)
    /\ apc' = "once"
    /\ UNCHANGED <<address, plain, twice, exists, found>>
    /\ UNCHANGED notAddr

NormalizeTwice ==
    /\ apc = "once"
    /\ twice' = NormalizeAddress(once)
    /\ apc' = "twice"
    /\ UNCHANGED <<address, plain, once, exists, found>>
    /\ UNCHANGED notAddr

\* the store holds one house, whose address is "plain"
Stored == <<[id |-> "h1", address |-> plain]>>

CallHouseExists ==
    /\ apc = "twice"
    /\ exists' = HouseExists(Stored, address)
    /\ apc' = "exists"
    /\ UNCHANGED <<address, plain, once, twice, found>>
    /\ UNCHANGED notAddr

CallFindHouseByAddress ==
    /\ apc = "exists"
    /\ found' = FindHouseByAddress(Stored, address)
    /\ apc' = "found"
    /\ UNCHANGED <<address, plain, once, twice, exists>>
    /\ UNCHANGED notAddr

(***************************************************************************)
(* Ingestion: generate_house_id, the ingest and import-search commands of  *)
(* the CLI, and bulk_save_houses.                                          *)
(***************************************************************************)
MaxClock == 1     \* seconds that pass
MaxCalls == 2     \* houses handed to the ingest commands and to bulk_save_houses

SlugMax == 50

\* "A St" and "a street" are duplicates with different slugs;
\* "O'B" and "OB" are not duplicates and have the same slug
Listings ==
    {<<"A", " ", "S", "t">>, <<"a", " ", "s", "t", "r", "e", "e", "t">>,
     <<"O", "'", "B">>, <<"O", "B">>}

\* lines 106-108: lower case, alphanumerics and spaces only, words joined by "-"
Slug(addr) ==
    LET lowered == [n \in 1..Len(addr) |-> Lower(addr[n])]
        kept == SelectSeq(lowered, LAMBDA c : IsAlnum(c) \/ c = " ")
        joined == [n \in 1..Len(SplitJoin(kept)) |->
                      IF SplitJoin(kept)[n] = " " THEN "-" ELSE SplitJoin(kept)[n]]
    IN  SubSeq(joined, 1, Min(SlugMax, Len(joined)))

\* generate_house_id (json_store.py:103-112): the slug and the second it was made in
GenerateHouseId(addr, now) ==
    [slug |-> IF Slug(addr) # <<>> THEN Slug(addr) ELSE <<"h", "o", "u", "s", "e">>,
     stamp |-> now]

\* save_house on the directory: the file named after the id is (over)written
WriteFile(dir, h) ==
    IF \E n \in 1..Len(dir) : dir[n].id = h.id
    THEN [n \in 1..Len(dir) |-> IF dir[n].id = h.id THEN h ELSE dir[n]]
    ELSE Append(dir, h)

Holds(dir, id) == \E n \in 1..Len(dir) : dir[n].id = id

Tick ==
    /\ ipc \in {"idle", "returned"}
    /\ clock < MaxClock
    /\ clock' = clock + 1
    /\ UNCHANGED <<shelf, issued, overwrote, ipc, calls, inputs, todo, saved,
                   skipped, uniqueBefore>>
    /\ UNCHANGED notIngest

\* cli.py:61-80 and 96-106: the id is generated and the house saved
HouseIngest(addr) ==
    /\ ipc \in {"idle", "returned"}
    /\ calls < MaxCalls
    /\ calls' = calls + 1
    /\ LET id == GenerateHouseId(addr, clock)
       IN  /\ issued' = Append(issued, id)
           /\ overwrote' = (overwrote \/ Holds(shelf, id))
           /\ shelf' = WriteFile(shelf, [id |-> id, address |-> addr])
    /\ UNCHANGED <<clock, ipc, inputs, todo, saved, skipped, uniqueBefore>>
    /\ UNCHANGED notIngest

\* cli.py:144-180: one listing of house_import_search
ImportListing(addr) ==
    /\ ipc \in {"idle", "returned"}
    /\ calls < MaxCalls
    /\ calls' = calls + 1
    /\ IF addr = <<>> \/ HouseExists(shelf, addr)
       THEN UNCHANGED <<shelf, issued, overwrote>>
       ELSE LET id == GenerateHouseId(addr, clock)
            IN  /\ issued' = Append(issued, id)
                /\ overwrote' = (overwrote \/ Holds(shelf, id))
                /\ shelf' = WriteFile(shelf, [id |-> id, address |-> addr])
    /\ UNCHANGED <<clock, ipc, inputs, todo, saved, skipped, uniqueBefore>>
    /\ UNCHANGED notIngest

NoDuplicates(dir) ==
    \A m, n \in 1..Len(dir) :
        m # n => NormalizeAddress(dir[m].address) # NormalizeAddress(dir[n].address)

\* the caller builds the houses (House.create_from_zillow with a generated id)
\* and bulk_save_houses starts: lines 171-172
BulkSaveHouses(addrs) ==
    /\ ipc \in {"idle", "returned"}
    /\ calls + Len(addrs) <= MaxCalls
    /\ calls' = calls + Len(addrs)
    /\ LET houses == [n \in 1..Len(addrs) |->
                         [id |-> GenerateHouseId(addrs[n], clock), address |-> addrs[n]]]
       IN  /\ inputs' = houses
           /\ todo' = houses
           /\ issued' = issued \o [n \in 1..Len(houses) |-> houses[n].id]
    /\ saved' = 0
    /\ skipped' = 0
    /\ uniqueBefore' = NoDuplicates(shelf)
    /\ ipc' = "bulk"
    /\ UNCHANGED <<shelf, clock, overwrote>>
    /\ UNCHANGED notIngest

\* variant: the stored addresses are compared as they were typed
BulkStep_RawCompare ==
    /\ ipc = "bulk" /\ todo # <<>>
    /\ IF \E n \in 1..Len(shelf) : shelf[n].address = Head(todo).address
       THEN /\ skipped' = skipped + 1
            /\ UNCHANGED <<shelf, saved, overwrote>>
       ELSE /\ shelf' = WriteFile(shelf, Head(todo))
            /\ overwrote' = (overwrote \/ Holds(shelf, Head(todo).id))
            /\ saved' = saved + 1
            /\ UNCHANGED skipped
    /\ todo' = Tail(todo)
    /\ UNCHANGED <<clock, issued, ipc, calls, inputs, uniqueBefore>>
    /\ UNCHANGED notIngest

\* lines 173-178: one house of the loop
BulkStep ==
    /\ ipc = "bulk" /\ todo # <<>>
    /\ IF HouseExists(shelf, Head(todo).address)
       THEN /\ skipped' = skipped + 1
            /\ UNCHANGED <<shelf, saved, overwrote>>
       ELSE /\ shelf' = WriteFile(shelf, Head(todo))
            /\ overwrote' = (overwrote \/ Holds(shelf, Head(todo).id))
            /\ saved' = saved + 1
            /\ UNCHANGED skipped
    /\ todo' = Tail(todo)
    /\ UNCHANGED <<clock, issued, ipc, calls, inputs, uniqueBefore>>
    /\ UNCHANGED notIngest

\* line 179
BulkReturn ==
    /\ ipc = "bulk" /\ todo = <<>>
    /\ ipc' = "returned"
    /\ UNCHANGED <<shelf, clock, issued, overwrote, calls, inputs, todo, saved,
                   skipped, uniqueBefore>>
    /\ UNCHANGED notIngest

(***************************************************************************)
(* The image compositor: fetch_images with its semaphore, and              *)
(* create_composite (services/image_composite.py).                         *)
(***************************************************************************)
MaxUrls == 3         \* image urls of one listing
MaxConcurrent == 2   \* max_concurrent of a direct fetch_images call

DefaultMaxConcurrent == 10
max_cols == 5
cell_width == 400
cell_height == 300
padding == 2

\* an optional int: None, or a number
None == [set |-> FALSE, value |-> 0]
Some(k) == [set |-> TRUE, value |-> k]
\* Python's truth of an optional int: None and 0 are false
Truthy(opt) == opt.set /\ opt.value # 0

NoOutput == [kind |-> "none"]

\* what fetch_image can return (lines 11-18): None after any exception;
\* otherwise the image Image.open made.  Image.open only identifies the file:
\* the pixel data is decoded when the image is first processed, which can fail
FetchOutcomes == {"None", "image", "truncated"}

InFlight == {i \in DOMAIN task : task[i] = "fetching"}

\* lines 23-30: the semaphore and one task per url
StartFetching(us, limit) ==
    /\ urls' = us
    /\ max_concurrent' = limit
    /\ semaphore' = limit
    /\ task' = [i \in 1..Len(us) |-> "created"]
    /\ fetched' = [i \in 1..Len(us) |-> "pending"]
    /\ gets' = [i \in 1..Len(us) |-> 0]
    /\ waiters' = <<>>
    /\ peak' = 0
    /\ images' = <<>>
    /\ composed' = 0
    /\ output' = NoOutput
    /\ fpc' = "gathering"

\* create_composite, lines 131-134, up to the await of gather in fetch_images
CreateComposite(n, limit) ==
    /\ fpc = "idle"
    /\ image_urls' = [i \in 1..n |-> i]
    /\ max_images' = limit
    /\ direct' = FALSE
    /\ StartFetching(IF Truthy(limit)
                     THEN SubSeq(image_urls', 1, Min(limit.value, n))
                     ELSE image_urls',
                     DefaultMaxConcurrent)
    /\ UNCHANGED notFetch

\* fetch_images called on its own with a max_concurrent
FetchImages(n, limit) ==
    /\ fpc = "idle"
    /\ image_urls' = [i \in 1..n |-> i]
    /\ max_images' = None
    /\ direct' = TRUE
    /\ StartFetching(image_urls', limit)
    /\ UNCHANGED notFetch

\* the semaphore is taken and client.get is awaited (lines 27-28, 14)
Acquired(i) ==
    /\ semaphore' = semaphore - 1
    /\ task' = [task EXCEPT ![i] = "fetching"]
    /\ gets' = [gets EXCEPT ![i] = @ + 1]
    /\ peak' = IF Cardinality(InFlight) + 1 > peak
               THEN Cardinality(InFlight) + 1 ELSE peak

\* variant: the task goes on to fetch whatever the semaphore says
TaskStart_Unbounded(i) ==
    /\ fpc = "gathering"
    /\ task[i] = "created"
    /\ \A j \in 1..(i - 1) : task[j] # "created"
    /\ Acquired(i)
    /\ UNCHANGED waiters
    /\ UNCHANGED <<fpc, direct, image_urls, max_images, urls, max_concurrent,
                   fetched, images, composed, output>>
    /\ UNCHANGED notFetch

\* a task runs for the first time, in the order the tasks were made:
\* "async with semaphore" takes the semaphore or queues behind the waiters
TaskStart(i) ==
    /\ fpc = "gathering"
    /\ task[i] = "created"
    /\ \A j \in 1..(i - 1) : task[j] # "created"
    /\ IF semaphore > 0 /\ waiters = <<>>
       THEN /\ Acquired(i)
            /\ UNCHANGED waiters
       ELSE /\ task' = [task EXCEPT ![i] = "waiting"]
            /\ waiters' = Append(waiters, i)
            /\ UNCHANGED <<semaphore, gets, peak>>
    /\ UNCHANGED <<fpc, direct, image_urls, max_images, urls, max_concurrent,
                   fetched, images, composed, output>>
    /\ UNCHANGED notFetch

\* the first waiter is woken by a release and takes the semaphore
WaiterResumes ==
    /\ waiters # <<>>
    /\ semaphore > 0
    /\ Acquired(Head(waiters))
    /\ waiters' = Tail(waiters)
    /\ UNCHANGED <<fpc, direct, image_urls, max_images, urls, max_concurrent,
                   fetched, images, composed, output>>
    /\ UNCHANGED notFetch

\* fetch_image returns (lines 13-18) and the semaphore is released (line 27)
FetchReturns(i, outcome) ==
    /\ i \in InFlight
    /\ fetched' = [fetched EXCEPT ![i] = outcome]
    /\ task' = [task EXCEPT ![i] = "done"]
    /\ semaphore' = semaphore + 1
    /\ UNCHANGED <<fpc, direct, image_urls, max_images, urls, max_concurrent,
                   waiters, gets, peak, images, composed, output>>
    /\ UNCHANGED notFetch

\* line 33: the results that are not None, in the order of the urls
NotNone(us) == SelectSeq(us, LAMBDA u : fetched[u] # "None")

\* variant: gather hands back what has been fetched when the first task is done
GatherReturns_FirstCompleted ==
    /\ fpc = "gathering"
    /\ \E i \in DOMAIN task : task[i] = "done"
    /\ images' = SelectSeq(urls, LAMBDA u : fetched[u] \notin {"None", "pending"})
    /\ fpc' = IF direct THEN "returned" ELSE "fetched"
    /\ UNCHANGED <<direct, image_urls, max_images, urls, max_concurrent, task,
                   fetched, semaphore, waiters, gets, peak, composed, output>>
    /\ UNCHANGED notFetch

\* lines 31-33: gather returns when every task is done
GatherReturns ==
    /\ fpc = "gathering"
    /\ \A i \in DOMAIN task : task[i] = "done"
    /\ images' = NotNone(urls)
    /\ fpc' = IF direct THEN "returned" ELSE "fetched"
    /\ UNCHANGED <<direct, image_urls, max_images, urls, max_concurrent, task,
                   fetched, semaphore, waiters, gets, peak, composed, output>>
    /\ UNCHANGED notFetch

CeilSqrt(n) == CHOOSE k \in 0..n : k * k >= n /\ \A j \in 0..(k - 1) : j * j < n
CeilDiv(a, b) == (a + b - 1) \div b

\* variant: the rows are counted with a division that rounds down
CalculateGridDimensions_FloorRows(num_images) ==
    IF num_images = 0 THEN <<0, 0>>
    ELSE IF num_images <= 2 THEN <<num_images, 1>>
    ELSE IF num_images <= 4 THEN <<2, 2>>
    ELSE IF num_images <= 6 THEN <<3, 2>>
    ELSE IF num_images <= 9 THEN <<3, 3>>
    ELSE LET cols == Min(max_cols, CeilSqrt(num_images))
         IN  <<cols, num_images \div cols>>

\* calculate_grid_dimensions (lines 36-55): <<cols, rows>>
CalculateGridDimensions(num_images) ==
    IF num_images = 0 THEN <<0, 0>>
    ELSE IF num_images <= 2 THEN <<num_images, 1>>
    ELSE IF num_images <= 4 THEN <<2, 2>>
    ELSE IF num_images <= 6 THEN <<3, 2>>
    ELSE IF num_images <= 9 THEN <<3, 3>>
    ELSE LET cols == Min(max_cols, CeilSqrt(num_images))
         IN  <<cols, CeilDiv(num_images, cols)>>

\* the images the loop of create_grid_image visits (lines 78-80), from 0
Visited(imgs) ==
    LET dims == CalculateGridDimensions(Len(imgs))
    IN  {idx \in 0..(Len(imgs) - 1) : idx < dims[1] * dims[2]}

\* create_grid_image (lines 58-110) for images that decode
CreateGridImage(imgs) ==
    LET dims == CalculateGridDimensions(Len(imgs))
        cols == dims[1]
        rows == dims[2]
    IN  [kind |-> "grid",
         width |-> cols * cell_width + (cols + 1) * padding,
         height |-> rows * cell_height + (rows + 1) * padding,
         cols |-> cols,
         rows |-> rows,
         pasted |-> {[row |-> idx \div cols, col |-> idx % cols,
                      image |-> imgs[idx + 1]] : idx \in Visited(imgs)}]

\* lines 136-141
Placeholder ==
    [kind |-> "placeholder", width |-> cell_width, height |-> cell_height,
     colour |-> <<200, 200, 200>>]

\* create_composite after fetch_images (lines 136-149): the placeholder, or
\* the grid; resize (line 98) decodes the image and raises when it cannot
Compose ==
    /\ fpc = "fetched"
    /\ composed' = composed + 1
    /\ IF images = <<>>
       THEN /\ output' = Placeholder
            /\ fpc' = "returned"
       ELSE IF \E idx \in Visited(images) : fetched[images[idx + 1]] = "truncated"
            THEN /\ output' = NoOutput
                 /\ fpc' = "raised"
            ELSE /\ output' = CreateGridImage(images)
                 /\ fpc' = "returned"
    /\ UNCHANGED <<direct, image_urls, max_images, urls, max_concurrent, task,
                   fetched, semaphore, waiters, gets, peak, images>>
    /\ UNCHANGED notFetch

(***************************************************************************)
(* calculate_grid_dimensions called on its own                             *)
(***************************************************************************)
MaxGrid == 60        \* images handed to calculate_grid_dimensions

CallCalculateGridDimensions ==
    /\ gpc = "idle"
    /\ grid_dims' = CalculateGridDimensions(grid_n)
    /\ gpc' = "called"
    /\ UNCHANGED grid_n
    /\ UNCHANGED notGrid

(***************************************************************************)
(* Specifications                                                          *)
(***************************************************************************)
\* h1 was ingested with images; h2 was ingested without images, or never
FreshStores ==
    {[i \in HouseIds |-> IF i = "h1" THEN File(NewHouse(i, TRUE)) ELSE f] :
        f \in {NoFile, File(NewHouse("h2", FALSE))}}

PipeIdle ==
    /\ taste = "absent"
    /\ pc = "idle"
    /\ cur = "h1"
    /\ house = NoHouse
    /\ ret = "none"
    /\ run = 0
    /\ stageOut = NoStages
    /\ trace = <<>>
    /\ before = NoHouse
    /\ bpc = "none"
    /\ queue = <<>>
    /\ asked = <<>>
    /\ results = NoResults
    /\ success = 0
    /\ defaulted = FALSE

\* nothing outside the scoring pipeline has been called
RankIdle ==
    /\ files = <<>>
    /\ listed = <<>>
    /\ rankings = NoRankings

AddrIdle ==
    /\ address = <<>>
    /\ plain = <<>>
    /\ once = <<>>
    /\ twice = <<>>
    /\ exists = FALSE
    /\ found = NotFound
    /\ apc = "off"

IngestIdle ==
    /\ shelf = <<>>
    /\ clock = 0
    /\ issued = <<>>
    /\ overwrote = FALSE
    /\ ipc = "idle"
    /\ calls = 0
    /\ inputs = <<>>
    /\ todo = <<>>
    /\ saved = 0
    /\ skipped = 0
    /\ uniqueBefore = TRUE

FetchIdle ==
    /\ fpc = "idle"
    /\ direct = FALSE
    /\ image_urls = <<>>
    /\ max_images = None
    /\ urls = <<>>
    /\ max_concurrent = DefaultMaxConcurrent
    /\ task = <<>>
    /\ fetched = <<>>
    /\ semaphore = 0
    /\ waiters = <<>>
    /\ gets = <<>>
    /\ peak = 0
    /\ images = <<>>
    /\ composed = 0
    /\ output = NoOutput

GridIdle ==
    /\ grid_n = 0
    /\ grid_dims = <<0, 0>>
    /\ gpc = "off"

\* the commands of several processes on one data directory
Procs == {1, 2}

IdleProc ==
    [cmd |-> "none", id |-> "h1", k |-> 0, pc |-> "idle", copy |-> NoHouse,
     ret |-> "none", out |-> NoStages, created |-> 0, during |-> FALSE]

AllAnswer == [k \in 1..4 |-> "ok"]

ParIdle ==
    /\ house_files = [i \in HouseIds |-> NoFile]
    /\ initial = [i \in HouseIds |-> NoFile]
    /\ taste_file = "absent"
    /\ proc = [p \in Procs |-> IdleProc]
    /\ oracle = AllAnswer
    /\ started = 0

LibIdle == RankIdle /\ AddrIdle /\ IngestIdle /\ FetchIdle /\ GridIdle /\ ParIdle

Init ==
    /\ store \in FreshStores
    /\ PipeIdle
    /\ text = <<>>
    /\ parser = "none"
    /\ parsed = NotParsed
    /\ LibIdle

Next ==
    \/ \E id \in HouseIds : ScoreHouse(id)
    \/ VisionLoad
    \/ VisionNoImages
    \/ VisionCallRaises
    \/ VisionResponds
    \/ PresentFitLoad
    \/ PresentFitCallRaises
    \/ PresentFitResponds
    \/ PotentialLoad
    \/ PotentialCallRaises
    \/ PotentialResponds
    \/ BriefLoad
    \/ BriefCallRaises
    \/ BriefResponds
    \/ KilledInSave
    \/ \E house_ids \in SeqsUpTo(HouseIds, MaxRuns) : BatchScore(house_ids)
    \/ BatchScoreAll
    \/ BatchNext
    \/ BatchCollect
    \/ BatchReturn

Spec == Init /\ [][Next]_vars

\* the parsers alone
ParseInit ==
    /\ store = [i \in HouseIds |-> NoFile]
    /\ PipeIdle
    /\ text \in Texts
    /\ parser \in {"vision", "present_fit", "potential"}
    /\ parsed = NotParsed
    /\ LibIdle

ParseNext == ParseVision \/ ParsePresentFit \/ ParsePotential

ParseSpec == ParseInit /\ [][ParseNext]_vars

\* the scoring pipeline is not running
PipeOff ==
    /\ store = [i \in HouseIds |-> NoFile]
    /\ PipeIdle
    /\ text = <<>>
    /\ parser = "none"
    /\ parsed = NotParsed

\* get_rankings over a directory of houses
RankInit ==
    /\ PipeOff
    /\ AddrIdle
    /\ IngestIdle
    /\ FetchIdle
    /\ GridIdle
    /\ ParIdle
    /\ \E n \in 0..MaxHouses :
         \E contents \in [1..n -> FileContents] : files = Directory(contents)
    /\ listed = <<>>
    /\ rankings = NoRankings

RankNext == GetRankings

RankSpec == RankInit /\ [][RankNext]_vars

\* an address is typed, normalised twice and looked up
AddrInit ==
    /\ PipeOff
    /\ RankIdle
    /\ IngestIdle
    /\ FetchIdle
    /\ GridIdle
    /\ ParIdle
    /\ \E n \in 0..MaxWords :
         \E words \in [1..n -> Words], seps \in [1..(n - 1) -> Separators] :
             /\ address = Typed(words, seps, 1)
             /\ plain = Plain(words, 1)
    /\ once = <<>>
    /\ twice = <<>>
    /\ exists = FALSE
    /\ found = NotFound
    /\ apc = "typed"

AddrNext ==
    \/ NormalizeOnce
    \/ NormalizeTwice
    \/ CallHouseExists
    \/ CallFindHouseByAddress

AddrSpec == AddrInit /\ [][AddrNext]_vars

\* houses are ingested into an empty directory
IngestInit ==
    /\ PipeOff
    /\ RankIdle
    /\ AddrIdle
    /\ IngestIdle
    /\ FetchIdle
    /\ GridIdle
    /\ ParIdle

IngestNext ==
    \/ Tick
    \/ \E addr \in Listings : HouseIngest(addr)
    \/ \E addr \in Listings : ImportListing(addr)
    \/ \E addrs \in SeqsUpTo(Listings, MaxCalls) : BulkSaveHouses(addrs)
    \/ BulkStep
    \/ BulkReturn

IngestSpec == IngestInit /\ [][IngestNext]_vars

\* calculate_grid_dimensions for a number of images
GridInit ==
    /\ PipeOff
    /\ RankIdle
    /\ AddrIdle
    /\ IngestIdle
    /\ FetchIdle
    /\ ParIdle
    /\ grid_n \in 0..MaxGrid
    /\ grid_dims = <<0, 0>>
    /\ gpc = "idle"

GridNext == CallCalculateGridDimensions

GridSpec == GridInit /\ [][GridNext]_vars

\* one call of create_composite, or of fetch_images on its own
FetchInit ==
    /\ PipeOff
    /\ RankIdle
    /\ AddrIdle
    /\ IngestIdle
    /\ FetchIdle
    /\ GridIdle
    /\ ParIdle

MaxImages(n) == {None} \cup {Some(k) : k \in 0..n}

FetchNext ==
    \/ \E n \in 0..MaxUrls : \E limit \in MaxImages(n) : CreateComposite(n, limit)
    \/ \E n \in 0..MaxUrls : \E limit \in 1..MaxConcurrent : FetchImages(n, limit)
    \/ \E i \in DOMAIN task : TaskStart(i)
    \/ WaiterResumes
    \/ \E i \in DOMAIN task : \E outcome \in FetchOutcomes : FetchReturns(i, outcome)
    \/ GatherReturns
    \/ Compose

FetchSpec == FetchInit /\ [][FetchNext]_vars

\* the event loop runs every task that can run, and every request ends: the
\* client is made with timeout=30.0 (line 23)
FairFetchSpec ==
    /\ FetchSpec
    /\ WF_vars(\E i \in DOMAIN task : TaskStart(i))
    /\ WF_vars(WaiterResumes)
    /\ WF_vars(\E i \in DOMAIN task : \E outcome \in FetchOutcomes : FetchReturns(i, outcome))

(***************************************************************************)
(* Commands run by several processes on one data directory.  A process     *)
(* runs one command at a time; a step is one access to a file or the end   *)
(* of a model call.  save_house is taken to replace the file at once;      *)
(* save_taste opens taste.json with "w", which empties it, and fills it.   *)
(***************************************************************************)
MaxCommands == 2   \* commands started in one behaviour

\* the model raises in at most one of the stages
Oracles == {AllAnswer} \cup {[AllAnswer EXCEPT ![k] = "raise"] : k \in 1..4}

Response == Fenced(GoodPayload)

\* what the agent of stage k saves when process n has the model's response
WithArtifact(h, k, n) ==
    CASE k = 1 ->
           [h EXCEPT !.vision_analysis =
               IF h.has_images
               THEN [VisionParse(Response).art EXCEPT
                        !.by = n, !.raw_description = "response"]
               ELSE [NoVision EXCEPT
                        !.set = TRUE, !.by = n, !.overall_aesthetic = 5,
                        !.raw_description = "No images available for analysis"]]
      [] k = 2 ->
           [h EXCEPT !.present_fit_score =
                        [PresentFitParse(Response).art EXCEPT !.by = n],
                     !.scored_at = n]
      [] k = 3 ->
           [h EXCEPT !.potential_score =
                        [PotentialParse(Response).art EXCEPT !.by = n]]
      [] k = 4 -> [h EXCEPT !.brief = [text |-> "md", by |-> n]]

Busy(p) == proc[p].pc \notin {"idle", "done"}

\* a command is started by a process that has none running
Start(p) ==
    /\ ~Busy(p)
    /\ started < MaxCommands
    /\ started' = started + 1

ParFrame == UNCHANGED <<initial, oracle>> /\ UNCHANGED notPar

\* variant: score_house gives up only when an agent raises
StageEnds_OnlyRaises(r, how) ==
    LET e == [r EXCEPT !.out[r.k] = how, !.copy = NoHouse]
    IN  IF r.cmd = "agent" THEN [e EXCEPT !.pc = "done", !.ret = how]
        ELSE IF r.k \in {1, 2} /\ how \in {"taste", "upstream"}
        THEN [e EXCEPT !.pc = "done", !.ret = "false"]
        ELSE IF r.k = 4 THEN [e EXCEPT !.pc = "done", !.ret = "true"]
        ELSE [e EXCEPT !.k = r.k + 1, !.pc = "load"]

\* the agent returned ("ok"; "skipped" or "not_applicable" for None) or raised
\* ("taste", "upstream"): score_house goes on or returns
StageEnds(r, how) ==
    LET e == [r EXCEPT !.out[r.k] = how, !.copy = NoHouse]
    IN  IF r.cmd = "agent" THEN [e EXCEPT !.pc = "done", !.ret = how]
        ELSE IF (r.k = 1 /\ how \notin {"ok", "skipped"}) \/ (r.k = 2 /\ how # "ok")
        THEN [e EXCEPT !.pc = "done", !.ret = "false"]
        ELSE IF r.k = 4 THEN [e EXCEPT !.pc = "done", !.ret = "true"]
        ELSE [e EXCEPT !.k = r.k + 1, !.pc = "load"]

\* orchestrator.py lines 37-40
StartScoreHouse(p, id) ==
    /\ Start(p)
    /\ proc' = [proc EXCEPT ![p] =
           IF house_files[id].file = "missing"
           THEN [IdleProc EXCEPT !.cmd = "score_house", !.id = id,
                                 !.pc = "done", !.ret = "false"]
           ELSE [IdleProc EXCEPT !.cmd = "score_house", !.id = id,
                                 !.pc = "load", !.k = 1]]
    /\ UNCHANGED <<house_files, taste_file>>
    /\ ParFrame

\* an agent called on its own: analyze, score, score or generate
StartAgent(p, k, id) ==
    /\ Start(p)
    /\ proc' = [proc EXCEPT ![p] =
           [IdleProc EXCEPT !.cmd = "agent", !.id = id, !.pc = "load", !.k = k]]
    /\ UNCHANGED <<house_files, taste_file>>
    /\ ParFrame

\* the agent's load_house
AgentLoadHouse(p) ==
    LET r == proc[p]
        f == house_files[r.id]
    IN  /\ r.pc = "load"
        /\ proc' = [proc EXCEPT ![p] =
               IF f.file = "missing" THEN StageEnds(r, "skipped")
               ELSE [r EXCEPT !.copy = f.doc,
                              !.pc = IF r.k = 1 THEN "model" ELSE "taste"]]
        /\ UNCHANGED <<house_files, taste_file, started>>
        /\ ParFrame

\* variant: the scores are computed whether there is an analysis or not
AfterTaste_Unconditional(r) == [r EXCEPT !.pc = "model"]

\* the test of vision_analysis that follows load_or_create_taste
AfterTaste(r) ==
    IF r.k \in {2, 3} /\ ~r.copy.vision_analysis.set
    THEN StageEnds(r, "not_applicable")
    ELSE [r EXCEPT !.pc = "model"]

\* load_or_create_taste up to the open(self.taste_file, "w") of save_taste
AgentLoadTaste(p) ==
    LET r == proc[p]
    IN  /\ r.pc = "taste"
        /\ CASE taste_file = "absent" ->
                  /\ taste_file' = "empty"
                  /\ proc' = [proc EXCEPT ![p] =
                         [r EXCEPT !.pc = "write", !.created = r.k]]
             [] taste_file = "empty" ->
                  /\ proc' = [proc EXCEPT ![p] = StageEnds(r, "taste")]
                  /\ UNCHANGED taste_file
             [] taste_file = "present" ->
                  /\ proc' = [proc EXCEPT ![p] = AfterTaste(r)]
                  /\ UNCHANGED taste_file
        /\ UNCHANGED <<house_files, started>>
        /\ ParFrame

\* json.dump has written the default taste and the file is closed
SaveTasteCloses(p) ==
    LET r == proc[p]
    IN  /\ r.pc = "write"
        /\ taste_file' = "present"
        /\ proc' = [proc EXCEPT ![p] = AfterTaste(r)]
        /\ UNCHANGED <<house_files, started>>
        /\ ParFrame

\* the model call ends; on a response the agent saves the house it loaded
AgentResponds(p) ==
    LET r == proc[p]
        asks == ~(r.k = 1 /\ ~r.copy.has_images)
    IN  /\ r.pc = "model"
        /\ IF asks /\ oracle[r.k] = "raise"
           THEN /\ proc' = [proc EXCEPT ![p] = StageEnds(r, "upstream")]
                /\ UNCHANGED house_files
           ELSE /\ house_files' = SaveHouse(house_files, WithArtifact(r.copy, r.k, p))
                /\ proc' = [proc EXCEPT ![p] = StageEnds(r, "ok")]
        /\ UNCHANGED <<taste_file, started>>
        /\ ParFrame

\* cli.py lines 451-454
TasteAnnotateLoad(p, id) ==
    LET f == house_files[id]
    IN  /\ Start(p)
        /\ proc' = [proc EXCEPT ![p] =
               IF f.file = "missing"
               THEN [IdleProc EXCEPT !.cmd = "annotate", !.id = id,
                                     !.pc = "done", !.ret = "exit"]
               ELSE [IdleProc EXCEPT !.cmd = "annotate", !.id = id,
                                     !.pc = "annotate", !.copy = f.doc]]
        /\ UNCHANGED <<house_files, taste_file>>
        /\ ParFrame

Scoring(q, id) ==
    proc[q].cmd = "score_house" /\ proc[q].id = id /\ Busy(q)

\* cli.py lines 456-466, with --verdict liked and a --note
TasteAnnotateSave(p) ==
    LET r == proc[p]
    IN  /\ r.pc = "annotate"
        /\ house_files' = SaveHouse(house_files,
               [r.copy EXCEPT !.user_verdict = "liked",
                              !.annotations = Append(@, p)])
        /\ proc' = [proc EXCEPT ![p] =
               [r EXCEPT !.pc = "done", !.ret = "saved", !.copy = NoHouse,
                         !.during = \E q \in Procs \ {p} : Scoring(q, r.id)]]
        /\ UNCHANGED <<taste_file, started>>
        /\ ParFrame

\* cli.py lines 364-367
HouseDeleteLoad(p, id) ==
    /\ Start(p)
    /\ proc' = [proc EXCEPT ![p] =
           IF house_files[id].file = "missing"
           THEN [IdleProc EXCEPT !.cmd = "delete", !.id = id,
                                 !.pc = "done", !.ret = "exit"]
           ELSE [IdleProc EXCEPT !.cmd = "delete", !.id = id, !.pc = "unlink"]]
    /\ UNCHANGED <<house_files, taste_file>>
    /\ ParFrame

\* delete_house
HouseDeleteUnlink(p) ==
    LET r == proc[p]
    IN  /\ r.pc = "unlink"
        /\ house_files' = [house_files EXCEPT ![r.id] = NoFile]
        /\ proc' = [proc EXCEPT ![p] = [r EXCEPT !.pc = "done", !.ret = "deleted"]]
        /\ UNCHANGED <<taste_file, started>>
        /\ ParFrame

\* cli.py lines 54-81: the new house is saved under the id made for it
\* (the listing of h1 has images and that of h2 has none)
HouseIngestSaves(p, id) ==
    /\ Start(p)
    /\ house_files' = SaveHouse(house_files, NewHouse(id, id = "h1"))
    /\ proc' = [proc EXCEPT ![p] =
           [IdleProc EXCEPT !.cmd = "ingest", !.id = id, !.pc = "done",
                            !.ret = "saved"]]
    /\ UNCHANGED taste_file
    /\ ParFrame

ParInit ==
    /\ PipeOff
    /\ RankIdle
    /\ AddrIdle
    /\ IngestIdle
    /\ FetchIdle
    /\ GridIdle
    /\ house_files \in FreshStores
    /\ initial = house_files
    /\ taste_file = "absent"
    /\ proc = [p \in Procs |-> IdleProc]
    /\ oracle \in Oracles
    /\ started = 0

ParNext ==
    \/ \E p \in Procs, id \in HouseIds : StartScoreHouse(p, id)
    \/ \E p \in Procs, k \in 1..4, id \in HouseIds : StartAgent(p, k, id)
    \/ \E p \in Procs : AgentLoadHouse(p)
    \/ \E p \in Procs : AgentLoadTaste(p)
    \/ \E p \in Procs : SaveTasteCloses(p)
    \/ \E p \in Procs : AgentResponds(p)
    \/ \E p \in Procs, id \in HouseIds : TasteAnnotateLoad(p, id)
    \/ \E p \in Procs : TasteAnnotateSave(p)
    \/ \E p \in Procs, id \in HouseIds : HouseDeleteLoad(p, id)
    \/ \E p \in Procs : HouseDeleteUnlink(p)
    \/ \E p \in Procs, id \in HouseIds : HouseIngestSaves(p, id)

ParSpec == ParInit /\ [][ParNext]_vars

TypeOK ==
    /\ pc \in {"idle", "s1", "s1_loaded", "s2", "s2_loaded", "s3", "s3_loaded",
               "s4", "s4_loaded", "done"}
    /\ ret \in {"none", "true", "false", "raised"}
    /\ run \in 0..MaxRuns
    /\ bpc \in {"none", "loop", "running", "returned", "raised"}
    /\ taste \in {"absent", "present"}

(***************************************************************************)
(* Notation for the properties                                             *)
(***************************************************************************)
Failed == {"load", "upstream", "parse"}

\* the record the store holds for the house of the current run
Doc == store[cur].doc

Slot(h, k) ==
    CASE k = 1 -> h.vision_analysis
      [] k = 2 -> h.present_fit_score
      [] k = 3 -> h.potential_score
      [] k = 4 -> h.brief

IsSet(h, k) == IF k = 4 THEN h.brief.text # "" ELSE Slot(h, k).set

Populated(h) == \A k \in 1..4 : IsSet(h, k)

Entered(k) == \E i \in 1..Len(trace) : trace[i] = k

Loaded == pc \in {"s1_loaded", "s2_loaded", "s3_loaded", "s4_loaded"}

Payload == JsonLoads(Extract(text))

(***************************************************************************)
(* C1: once score_house has returned, it returned True exactly when stage  *)
(* 1 did not fail and stage 2 produced a score; how stages 3 and 4 ended   *)
(* has no part in it.                                                      *)
(***************************************************************************)
C1_TrueIffRequiredStages ==
    pc = "done" /\ ret \in {"true", "false"} =>
        (ret = "true" <=> stageOut[1] \in {"ok", "skipped"} /\ stageOut[2] = "ok")

C1_Witness ==
    pc = "done" /\ ret = "true" /\ stageOut[3] = "upstream" /\ stageOut[4] = "upstream"

(***************************************************************************)
(* C2 as stated: when stage 1 or stage 2 raised, score_house returned      *)
(* False and the record has no present_fit_score, potential_score or brief.*)
(***************************************************************************)
C2_Original ==
    pc = "done" /\ (stageOut[1] \in Failed \/ stageOut[2] \in Failed) =>
        ret = "false" /\ \A k \in 2..4 : ~IsSet(Doc, k)

(***************************************************************************)
(* C2 amended: when stage 1 or stage 2 raised, score_house returned False  *)
(* and present_fit_score, potential_score and brief are what they were     *)
(* when the run started (unset if they were unset then).                   *)
(***************************************************************************)
C2_RequiredFailureLeavesSlots ==
    pc = "done" /\ (stageOut[1] \in Failed \/ stageOut[2] \in Failed) =>
        ret = "false" /\ \A k \in 2..4 : Slot(Doc, k) = Slot(before, k)

C2_Witness ==
    pc = "done" /\ stageOut[2] = "upstream" /\ before.present_fit_score.set

(***************************************************************************)
(* C3 as stated: when stage 3 raised and stages 1, 2 and 4 succeeded,      *)
(* score_house returned True, potential_score is absent and the three      *)
(* other artifacts are present.                                            *)
(***************************************************************************)
OnlyStage3Failed ==
    /\ pc = "done" /\ stageOut[3] \in Failed
    /\ stageOut[1] = "ok" /\ stageOut[2] = "ok" /\ stageOut[4] = "ok"

C3_Original ==
    OnlyStage3Failed =>
        ret = "true" /\ ~IsSet(Doc, 3) /\ \A k \in {1, 2, 4} : IsSet(Doc, k)

(***************************************************************************)
(* C3 amended: in that case score_house returned True, potential_score is  *)
(* what it was when the run started (absent if it was absent then) and     *)
(* the three other artifacts are present, computed by this run.            *)
(***************************************************************************)
C3_OptionalFailureKeepsGoing ==
    OnlyStage3Failed =>
        /\ ret = "true"
        /\ Slot(Doc, 3) = Slot(before, 3)
        /\ \A k \in {1, 2, 4} : IsSet(Doc, k) /\ Slot(Doc, k).by = run

C3_Witness == OnlyStage3Failed /\ ~before.potential_score.set

(***************************************************************************)
(* C4 as stated: a run on a house whose four slots were populated enters   *)
(* all four stages and leaves in every slot a value it computed.           *)
(***************************************************************************)
C4_Original ==
    pc = "done" /\ Populated(before) =>
        trace = <<1, 2, 3, 4>> /\ \A k \in 1..4 : Slot(Doc, k).by = run

(***************************************************************************)
(* C4 amended: in a run on a house whose four slots were populated, a      *)
(* stage is left out only when an earlier required stage failed, never     *)
(* because its slot is populated; every stage that completed left in its   *)
(* slot a value computed by this run; a slot holds its earlier value only  *)
(* if its stage raised or was not reached.                                 *)
(***************************************************************************)
C4_RerunRecomputes ==
    pc = "done" /\ Populated(before) =>
        \A k \in 1..4 :
            /\ ~Entered(k) => \E j \in 1..2 : j < k /\ stageOut[j] \in Failed
            /\ Entered(k) => stageOut[k] \in Failed \cup {"ok"} \cup (IF k = 4 THEN {"skipped"} ELSE {})
            /\ stageOut[k] \in {"ok", "skipped"} => Slot(Doc, k).by = run
            /\ Slot(Doc, k).by # run =>
                   stageOut[k] \in Failed \cup {"none"} /\ Slot(Doc, k) = Slot(before, k)

C4_Witness ==
    /\ pc = "done" /\ Populated(before)
    /\ trace = <<1, 2, 3, 4>> /\ \A k \in 1..4 : stageOut[k] = "ok"

(***************************************************************************)
(* C5: the stages of a run are entered in the order 1, 2, 3, 4, and the    *)
(* output of every stage that succeeded is in the store, and in the copy   *)
(* any later stage has loaded, from the moment that stage ended.           *)
(***************************************************************************)
C5_InOrderAndPersisted ==
    /\ \A i \in 1..Len(trace) : trace[i] = i
    /\ \A k \in 1..4 :
           stageOut[k] = "ok" =>
               /\ store[cur].file = "ok" /\ Slot(Doc, k).by = run
               /\ Loaded => Slot(house, k) = Slot(Doc, k)

C5_Witness ==
    /\ pc = "s4_loaded" /\ \A k \in 1..3 : stageOut[k] = "ok"
    /\ \A k \in 1..3 : Slot(house, k).by = run

(***************************************************************************)
(* C6 as stated: no parser ever raises, and score_house on an existing     *)
(* house returns False only when the model call of stage 1 or 2 raised.    *)
(***************************************************************************)
C6_MalformedNeverAborts ==
    /\ parsed.exc \in {"pending", ""}
    /\ pc = "done" /\ ret = "false" /\ trace # <<>> =>
           stageOut[1] = "upstream" \/ stageOut[2] = "upstream"

(***************************************************************************)
(* C7 as stated: a payload that is an object with fields of the right      *)
(* types, whatever their values, gives an artifact whose aggregate score   *)
(* and qualities lie in their legal ranges; the parser does not raise.     *)
(***************************************************************************)
NumOrAbsent(f) == f.k \in {"num", "absent"}
StrOrAbsent(f) == f.k \in {"str", "absent"}
ObjectsIn(l) == l.k \in {"absent", "list"} /\ \A i \in 1..Len(l.items) : l.items[i].k = "obj"

WellTyped(data) ==
    /\ data.kind = "object"
    /\ NumOrAbsent(data.score) /\ NumOrAbsent(data.overall_aesthetic)
    /\ StrOrAbsent(data.feasibility)
    /\ ObjectsIn(data.dimension_scores) /\ ObjectsIn(data.rooms)
    /\ ObjectsIn(data.renovation_ideas)
    /\ \A i \in 1..Len(data.dimension_scores.items) :
           /\ NumOrAbsent(data.dimension_scores.items[i].score)
           /\ NumOrAbsent(data.dimension_scores.items[i].weight)
    /\ \A i \in 1..Len(data.rooms.items) :
           NumOrAbsent(data.rooms.items[i].aesthetic_quality)
    /\ \A i \in 1..Len(data.renovation_ideas.items) :
           StrOrAbsent(data.renovation_ideas.items[i].difficulty)

InRange(art) ==
    CASE parser = "vision" ->
             /\ art.overall_aesthetic \in 1..10
             /\ \A i \in 1..Len(art.rooms) : art.rooms[i] \in 1..10
      [] parser = "present_fit" -> art.score \in 0..100
      [] parser = "potential" -> art.score \in 0..100

C7_OutOfRangeCorrected ==
    parsed # NotParsed /\ WellTyped(Payload) => parsed.exc = "" /\ InRange(parsed.art)

(***************************************************************************)
(* C8: in a present-fit artifact built from the payload, dimension i has   *)
(* the score of item i brought into [0,10] (below 0 it is 0, up to 10 it   *)
(* is kept, above 10 it is divided by ten and then capped at 10) and the   *)
(* weight of item i brought into [0,1].                                    *)
(***************************************************************************)
C8_DimensionClamp ==
    parser = "present_fit" /\ parsed.exc = "" /\ parsed.art.justification = "model" =>
        LET items == Payload.dimension_scores.items
            dims == parsed.art.dimension_scores
        IN  /\ Len(dims) = Len(items)
            /\ \A i \in 1..Len(dims) :
                   LET s == items[i].score
                       w == items[i].weight
                   IN  /\ dims[i].score \in 0..1000
                       /\ dims[i].weight \in 0..100
                       /\ s.k = "num" /\ s.n < 0 => dims[i].score = 0
                       /\ s.k = "num" /\ s.n \in 0..100 => dims[i].score = 10 * s.n
                       /\ s.k = "num" /\ s.n \in 101..1000 => dims[i].score = s.n
                       /\ s.k = "num" /\ s.n > 1000 => dims[i].score = 1000
                       /\ w.k = "num" /\ w.n \in 0..100 => dims[i].weight = w.n

C8_Witness ==
    /\ parser = "present_fit" /\ parsed.exc = ""
    /\ Len(parsed.art.dimension_scores) = 2
    /\ Payload.dimension_scores.items[1].score = Num(850)
    /\ parsed.art.dimension_scores[1].score = 850
    /\ Payload.dimension_scores.items[2].weight = Num(250)
    /\ parsed.art.dimension_scores[2].weight = 100

(***************************************************************************)
(* C9: when the present-fit response holds no JSON document, the parser    *)
(* does not raise, stage 2 ends as completed, and the store holds the      *)
(* fallback score 50 with the parse-error justification.                   *)
(***************************************************************************)
C9_NonJsonFallbackPersisted ==
    parser = "present_fit" /\ ~IsJson(text) =>
        /\ parsed.exc = ""
        /\ pc = "s3" /\ stageOut[2] = "ok"
        /\ Doc.present_fit_score.set /\ Doc.present_fit_score.by = run
        /\ Doc.present_fit_score.score = 50
        /\ Doc.present_fit_score.justification = "Scoring parse error. Raw: "

C9_Witness ==
    /\ parser = "present_fit" /\ text = <<FenceJson, Json(GoodPayload)>>
    /\ pc = "s3" /\ Doc.present_fit_score.score = 50

(***************************************************************************)
(* C10 as stated: batch_score never raises, and when it has returned, the  *)
(* results hold True or False for exactly the ids it was given and the     *)
(* success count is the number of True entries.                            *)
(***************************************************************************)
C10_BatchAlwaysCompletes ==
    /\ bpc # "raised"
    /\ bpc = "returned" =>
           /\ \A i \in HouseIds :
                  (results[i] # "none") <=> (\E n \in 1..Len(asked) : asked[n] = i)
           /\ success = CountTrue(results)

(***************************************************************************)
(* C11: batch_score called without ids runs exactly the houses that have   *)
(* no present_fit_score when it is called: the list it works through is    *)
(* made of those houses, each of them has been run when the call returns,  *)
(* and no house outside the list is run.                                   *)
(***************************************************************************)
Unscored(st) == {i \in HouseIds : st[i].file = "ok" /\ ~st[i].doc.present_fit_score.set}

Ids(list) == {list[n] : n \in 1..Len(list)}

Ran == {i \in HouseIds : results[i] # "none"}

C11_DefaultsToUnscored ==
    [][/\ (/\ bpc \in {"none", "returned", "raised"}
           /\ bpc' \in {"loop", "returned"}
           /\ defaulted')
          => /\ Ids(asked') = Unscored(store)
             /\ Len(asked') = Cardinality(Unscored(store))
       /\ (defaulted' /\ bpc' \in {"loop", "running", "returned"})
          => /\ Ran' \subseteq Ids(asked')
             /\ bpc' = "running" => cur' \in Ids(asked')
             /\ bpc' = "returned" => Ran' = Ids(asked')]_vars

\* h1 was scored by a single run, then the batch without ids ran h2 alone
C11_Witness ==
    /\ defaulted /\ bpc = "returned"
    /\ asked = <<"h2">>
    /\ results["h2"] # "none" /\ results["h1"] = "none"
    /\ store["h1"].file = "ok" /\ store["h1"].doc.present_fit_score.by = 1

(***************************************************************************)
(* C12: get_rankings returns one (id, present-fit score, potential score   *)
(* or 0) tuple for each house that has a present_fit_score and for no      *)
(* other, by present-fit score descending, houses of equal score in the    *)
(* order list_houses gave them; scores 80, 60, 90 come back 90, 80, 60.    *)
(***************************************************************************)
Place(id) == CHOOSE n \in 1..Len(listed) : listed[n].id = id

C12_RankingsSortedStable ==
    rankings.state = "returned" =>
        LET rows == rankings.rows
            have == {n \in 1..Len(files) : files[n].present_fit_score.set}
        IN  /\ Len(rows) = Cardinality(have)
            /\ {rows[n][1] : n \in 1..Len(rows)} = {files[n].id : n \in have}
            /\ \A n \in 1..Len(rows) :
                   LET h == files[rows[n][1]]
                   IN  /\ rows[n][2] = h.present_fit_score.score
                       /\ rows[n][3] = IF h.potential_score.set
                                       THEN h.potential_score.score ELSE 0
            /\ \A m, n \in 1..Len(rows) :
                   m < n => \/ rows[m][2] > rows[n][2]
                            \/ /\ rows[m][2] = rows[n][2]
                               /\ Place(rows[m][1]) < Place(rows[n][1])

\* three houses listed with scores 80, 60, 90, one of them without potential score
C12_Witness ==
    /\ rankings.state = "returned"
    /\ Len(listed) = 3
    /\ [n \in 1..3 |-> listed[n].present_fit_score.score] = <<80, 60, 90>>
    /\ [n \in 1..3 |-> rankings.rows[n][2]] = <<90, 80, 60>>
    /\ \E n \in 1..3 : rankings.rows[n][3] = 0

(***************************************************************************)
(* C13: whenever save_house is cut short, the file of that house holds the *)
(* earlier document or the new one, so that no load_house or list_houses   *)
(* that follows meets an empty or truncated document.                      *)
(***************************************************************************)
C13_SaveIsAtomic ==
    \A i \in HouseIds :
        /\ store[i].file # "corrupt"
        /\ LoadHouse(store, i).exc = ""
        /\ ListHouses(store).exc = ""

(***************************************************************************)
(* C14: normalize_address applied to its own result gives that result.     *)
(***************************************************************************)
C14_NormalizeIdempotent ==
    apc \in {"twice", "exists", "found"} => twice = once

(***************************************************************************)
(* C15: house_exists and find_house_by_address report a stored house as a  *)
(* duplicate exactly when its address and the one asked for normalise to   *)
(* the same text, and they do whenever the two differ only in letter case, *)
(* punctuation, runs of whitespace, or a street-type word abbreviated or   *)
(* spelled out in the middle or at the end.                                *)
(***************************************************************************)
C15_DuplicatesByNormalForm ==
    apc = "found" =>
        /\ exists = (NormalizeAddress(plain) = once)
        /\ (found # NotFound) = exists
        /\ NormalizeAddress(plain) = once
        /\ found = Stored[1]

(***************************************************************************)
(* C16: bulk_save_houses skips a house exactly when a stored house (one    *)
(* saved earlier in the same call included) has an equal normalised        *)
(* address and saves it otherwise; it returns counts that add up to the    *)
(* number of houses given; and if no two stored addresses were duplicates  *)
(* when it was called, none are when it returns.                           *)
(***************************************************************************)
C16_BulkSaveSkipsDuplicates ==
    [][/\ (ipc = "bulk" /\ ipc' = "bulk" /\ todo' # todo)
          => LET h == Head(todo)
                 key == NormalizeAddress(h.address)
                 dup == \E n \in 1..Len(shelf) : NormalizeAddress(shelf[n].address) = key
             IN  /\ dup => /\ shelf' = shelf
                           /\ skipped' = skipped + 1 /\ saved' = saved
                 /\ ~dup => /\ \E n \in 1..Len(shelf') : shelf'[n] = h
                            /\ saved' = saved + 1 /\ skipped' = skipped
       /\ (ipc = "bulk" /\ ipc' = "returned")
          => /\ saved' + skipped' = Len(inputs')
             /\ uniqueBefore' => NoDuplicates(shelf')]_vars

\* "A St" then "a street" (or the reverse) in one call: one saved, one skipped
C16_Witness ==
    /\ ipc = "returned"
    /\ Len(inputs) = 2 /\ inputs[1].address # inputs[2].address
    /\ saved = 1 /\ skipped = 1
    /\ shelf = <<inputs[1]>>

(***************************************************************************)
(* C17: no two calls of generate_house_id return the same id, and saving a *)
(* newly ingested house never replaces the record of another.              *)
(***************************************************************************)
C17_GeneratedIdsUnique ==
    /\ \A m, n \in 1..Len(issued) : m # n => issued[m] # issued[n]
    /\ ~overwrote


(***************************************************************************)
(* C18: while fetch_images runs, the number of fetches in flight is never  *)
(* more than max_concurrent (10 when create_composite calls it), however   *)
(* many urls there are, and the fetch of every url is eventually started.  *)
(***************************************************************************)
C18_BoundedConcurrency ==
    /\ [](Cardinality(InFlight) <= max_concurrent)
    /\ [](~direct => max_concurrent = DefaultMaxConcurrent)
    /\ \A i \in 1..MaxUrls :
           (i \in DOMAIN task) ~> (i \in DOMAIN gets /\ gets[i] > 0)

\* more urls than the limit: the limit was reached, a task waited, and all
\* the fetches were made
C18_Witness ==
    /\ fpc = "returned"
    /\ direct
    /\ Len(urls) > max_concurrent
    /\ peak = max_concurrent
    /\ \A i \in DOMAIN gets : gets[i] = 1

(***************************************************************************)
(* C19: create_composite composes its output once, and only when every     *)
(* fetch task is done: while a fetch is in flight or has not started       *)
(* nothing is composed, and when create_composite ends it has composed     *)
(* exactly once.                                                           *)
(***************************************************************************)
Settled == \A i \in DOMAIN task : task[i] = "done" /\ fetched[i] \in FetchOutcomes

C19_ComposeOnceAfterFetches ==
    [][/\ (composed' # composed \/ output' # output) =>
             /\ fpc # "idle" => (Settled /\ composed' = 1)
             /\ fpc = "idle" => (composed' = 0 /\ output' = NoOutput)
       /\ (~direct' /\ fpc' \in {"returned", "raised"}) =>
             (composed' = 1 /\ Settled')]_vars

C19_Witness ==
    /\ fpc = "returned"
    /\ ~direct
    /\ Len(urls) = 3
    /\ fetched = <<"image", "None", "image">>
    /\ composed = 1
    /\ output.kind = "grid"

(***************************************************************************)
(* C20: a fetch that fails never makes create_composite fail and is never  *)
(* tried again; whatever the fetches gave, the grid holds the images that  *)
(* were fetched, each once, in the order of their urls, in consecutive     *)
(* cells row by row, and when no fetch gave an image the output is one     *)
(* placeholder of the size of a cell.                                      *)
(***************************************************************************)
Successes == SelectSeq(urls, LAMBDA u : fetched[u] \in {"image", "truncated"})

RowMajor(paste) == paste.row * output.cols + paste.col

C20_FailuresAreDropped ==
    /\ fpc # "raised"
    /\ \A i \in DOMAIN gets : gets[i] <= 1
    /\ (fpc = "returned" /\ ~direct) =>
          IF Successes = <<>>
          THEN output = Placeholder
          ELSE /\ output.kind = "grid"
               /\ Cardinality(output.pasted) = Len(Successes)
               /\ \A k \in 1..Len(Successes) :
                      \E paste \in output.pasted :
                          /\ RowMajor(paste) = k - 1
                          /\ paste.image = Successes[k]
                          /\ paste.col < output.cols
                          /\ paste.row < output.rows


(***************************************************************************)
(* C21: for n >= 1 calculate_grid_dimensions(n) is (n, 1) up to 2, (2, 2)  *)
(* up to 4, (3, 2) up to 6, (3, 3) up to 9, and beyond that cols is the    *)
(* smaller of 5 and the least k with k * k >= n, rows the least r with     *)
(* r * cols >= n; 1 gives (1, 1), 4 (2, 2), 7 (3, 3), 20 (5, 4); and the   *)
(* grid always has room for the n images.                                  *)
(***************************************************************************)
IsCeilSqrt(k, n) == k * k >= n /\ (k - 1) * (k - 1) < n

C24_NoImagesPlaceholder ==
    [][/\ (pc = "s1_loaded" /\ ~house.has_images /\ pc' # "idle") =>
             /\ pc' = "s2" /\ stageOut'[1] = "ok"
             /\ store'[cur].file = "ok"
             /\ store'[cur].doc.vision_analysis.set
             /\ store'[cur].doc.vision_analysis.overall_aesthetic = 5
             /\ store'[cur].doc.vision_analysis.rooms = <<>>
             /\ UNCHANGED parseVars
       /\ (pc = "s2" /\ store[cur].file = "ok" /\ ~store[cur].doc.has_images
              /\ stageOut[1] = "ok") =>
             pc' = "s2_loaded"]_vars

C24_Witness ==
    /\ pc = "done" /\ ret = "true"
    /\ ~Doc.has_images
    /\ Doc.vision_analysis.overall_aesthetic = 5
    /\ Doc.vision_analysis.raw_description = "No images available for analysis"
    /\ Doc.present_fit_score.by = run

(***************************************************************************)
(* C25: every potential score in the store has a feasibility that is one   *)
(* of light, medium and heavy, and so is the difficulty of each of its     *)
(* renovation ideas; this includes the fallback made from text that is not *)
(* JSON.                                                                   *)
(***************************************************************************)
Levels == {"light", "medium", "heavy"}

C25_ThreeLevels ==
    \A i \in HouseIds :
        (store[i].file = "ok" /\ store[i].doc.potential_score.set) =>
            LET p == store[i].doc.potential_score
            IN  /\ p.feasibility \in Levels
                /\ \A j \in 1..Len(p.renovation_ideas) :
                       p.renovation_ideas[j] \in Levels

(***************************************************************************)
(* C26: when the text of a stage is not JSON, what the stage saves is the  *)
(* fallback with the neutral aggregate (5 for the analysis, 50 for the two *)
(* scores), and the only model text in it is the diagnostic with the cut   *)
(* prefix of the response.  The diagnostics are written                    *)
(* "Parse error. Raw response: " for response[:500] behind that label and  *)
(* likewise for the scores; "response" is the whole response.              *)
(***************************************************************************)
JustSaved(agent) ==
    /\ parser = agent /\ parsed.exc = "" /\ ~IsJson(text)
    /\ pc \in {"s2", "s3", "s4"}
    /\ store[cur].file = "ok"

C26_FallbackBoundsRawText ==
    /\ JustSaved("vision") =>
          Doc.vision_analysis = [VisionFallback EXCEPT !.by = run]
    /\ JustSaved("present_fit") =>
          Doc.present_fit_score = [PresentFitFallback EXCEPT !.by = run]
    /\ JustSaved("potential") =>
          Doc.potential_score = [PotentialFallback EXCEPT !.by = run]

(***************************************************************************)
(* C27: a stage that fails, because its load, its model call or its parser *)
(* raises, leaves the store as it was when the stage began.  A slot of the *)
(* record changes only in the step that ends its stage without a failure,  *)
(* and then it holds the whole artifact the stage made.                    *)
(***************************************************************************)
WholeArtifact(k, slot, p, n) ==
    CASE k = 1 -> \/ slot = [p.art EXCEPT !.by = n, !.raw_description = "response"]
                  \/ /\ slot.set /\ slot.overall_aesthetic = 5 /\ slot.by = n
                     /\ slot.raw_description = "No images available for analysis"
      [] k \in {2, 3} -> slot.set /\ slot = [p.art EXCEPT !.by = n]
      [] k = 4 -> slot.by = n

C27_FailedStageWritesNothing ==
    [][pc' # "idle" =>
         /\ pc \in {"s1", "s2", "s3", "s4"} => store' = store
         /\ \A k \in 1..4 :
              /\ (stageOut'[k] \in Failed /\ stageOut[k] # stageOut'[k]) =>
                     store' = store
              /\ (store[cur].file = "ok" /\ store'[cur].file = "ok"
                     /\ Slot(store'[cur].doc, k) # Slot(store[cur].doc, k)) =>
                     /\ stageOut[k] = "none"
                     /\ stageOut'[k] \in {"ok", "skipped"}
                     /\ WholeArtifact(k, Slot(store'[cur].doc, k), parsed', run)]_vars

C27_Witness ==
    /\ pc = "done" /\ ret = "true"
    /\ stageOut[1] = "ok" /\ stageOut[2] = "ok"
    /\ stageOut[3] \in {"upstream", "parse"} /\ stageOut[4] = "upstream"
    /\ run = 2
    /\ Doc.vision_analysis.by = 2 /\ Doc.present_fit_score.by = 2
    /\ Doc.potential_score.by = 1 /\ Doc.brief.by = 1

(***************************************************************************)
(* C28: score_house changes no record but the one it was called for, and   *)
(* in that one the id, the address, the image urls, the annotations, the   *)
(* verdict and ingested_at are as they were.                               *)
(***************************************************************************)
Kept(h) ==
    <<h.id, h.address, h.has_images, h.annotations, h.user_verdict, h.ingested_at>>

C28_Frame ==
    [][/\ \A i \in HouseIds : store'[i] # store[i] => i = cur
       /\ (store' # store /\ pc' # "idle") =>
             /\ store[cur].file = "ok" /\ store'[cur].file = "ok"
             /\ Kept(store'[cur].doc) = Kept(store[cur].doc)
             /\ Kept(store'[cur].doc) = Kept(before)]_vars

C28_Witness ==
    /\ pc = "done" /\ ret = "true" /\ cur = "h1"
    /\ \A k \in 1..4 : stageOut[k] = "ok" /\ Slot(Doc, k).by = run
    /\ Doc.scored_at = run
    /\ Kept(Doc) = Kept(NewHouse("h1", TRUE))
    /\ store["h2"] = File(NewHouse("h2", FALSE))

(***************************************************************************)
(* C22: when two processes have run score_house for different houses side *)
(* by side and nothing else ran, each house's file is what score_house     *)
(* leaves when it runs alone, the model answering the same way.  The two   *)
(* houses share no file but taste.json, so the order of a sequential       *)
(* execution makes no difference to either record.                         *)
(***************************************************************************)
Sequential(f, n) ==
    IF f.file # "ok" THEN f
    ELSE LET h0 == f.doc
             h1 == WithArtifact(h0, 1, n)
             h2 == WithArtifact(h1, 2, n)
             h3 == IF oracle[3] = "raise" THEN h2 ELSE WithArtifact(h2, 3, n)
             h4 == IF oracle[4] = "raise" THEN h3 ELSE WithArtifact(h3, 4, n)
         IN  File(IF h0.has_images /\ oracle[1] = "raise" THEN h0
                  ELSE IF oracle[2] = "raise" THEN h1
                  ELSE h4)

TwoRuns ==
    /\ started = 2
    /\ \A p \in Procs : proc[p].cmd = "score_house" /\ proc[p].pc = "done"
    /\ proc[1].id # proc[2].id

C22_ParallelAsSequential ==
    TwoRuns =>
        \A p \in Procs :
            house_files[proc[p].id] = Sequential(initial[proc[p].id], p)

(***************************************************************************)
(* C30: when taste annotate saved its verdict and note for a house while   *)
(* score_house was running on that house, and both have ended, the file    *)
(* holds the verdict, the note and every artifact the run produced.        *)
(***************************************************************************)
AnnotatedWhileScoring(p, q) ==
    /\ started = 2
    /\ proc[p].cmd = "score_house" /\ proc[p].pc = "done"
    /\ proc[q].cmd = "annotate" /\ proc[q].ret = "saved" /\ proc[q].during
    /\ proc[q].id = proc[p].id

C30_AnnotationNotLost ==
    \A p, q \in Procs :
        AnnotatedWhileScoring(p, q) =>
            LET f == house_files[proc[p].id]
            IN  /\ f.file = "ok"
                /\ f.doc.user_verdict = "liked"
                /\ \E i \in 1..Len(f.doc.annotations) : f.doc.annotations[i] = q
                /\ \A k \in 1..4 :
                       proc[p].out[k] = "ok" =>
                           IsSet(f.doc, k) /\ Slot(f.doc, k).by = p

(***************************************************************************)
(* C29: whatever ingest, the agents (alone or in score_house, in any order *)
(* and from any process), annotate and delete have done, a stored house    *)
(* with a present-fit score or a potential score has a vision analysis,    *)
(* and one with a present-fit score has scored_at.                         *)
(***************************************************************************)
C29_ScoresImplyAnalysis ==
    \A i \in HouseIds :
        house_files[i].file = "ok" =>
            LET h == house_files[i].doc
            IN  /\ (h.present_fit_score.set \/ h.potential_score.set) =>
                      h.vision_analysis.set
                /\ h.present_fit_score.set => h.scored_at # 0

C29_Witness ==
    LET h == house_files["h1"].doc
    IN  /\ house_files["h1"].file = "ok"
        /\ h.present_fit_score.set /\ h.potential_score.set
        /\ h.vision_analysis.set /\ h.scored_at # 0
        /\ h.annotations # <<>> /\ h.user_verdict = "liked"

(***************************************************************************)
(* C23: a present-fit or potential stage that has loaded a house without   *)
(* vision_analysis.  As stated: the stage returns "not applicable", calls  *)
(* no model and writes nothing, neither a house nor taste.json; after      *)
(* stage 2 score_house returns False, after stage 3 it goes on, and the    *)
(* brief stage calls its model with or without an analysis.                *)
(***************************************************************************)
Steps(p) == proc'[p] # proc[p]

\* process p is in stage 2 or 3 with a loaded house that has no analysis
Unanalysed(p) ==
    /\ proc[p].pc \in {"taste", "write"}
    /\ proc[p].k \in {2, 3}
    /\ ~proc[p].copy.vision_analysis.set

\* where score_house (or the caller of the agent) is after stage k ended
Follows(p, k) ==
    CASE proc[p].cmd = "agent" -> proc'[p].pc = "done"
      [] proc[p].cmd = "score_house" /\ k = 2 ->
           proc'[p].pc = "done" /\ proc'[p].ret = "false"
      [] proc[p].cmd = "score_house" /\ k = 3 ->
           proc'[p].pc = "load" /\ proc'[p].k = 4

BriefRegardless(p) ==
    (/\ proc[p].k = 4 /\ ~proc[p].copy.vision_analysis.set
     /\ \/ proc[p].pc = "write"
        \/ proc[p].pc = "taste" /\ taste_file = "present") =>
        proc'[p].pc = "model"

C23_Original ==
    [][\A p \in Procs :
         Steps(p) =>
           /\ Unanalysed(p) =>
                 /\ house_files' = house_files
                 /\ taste_file' = taste_file
                 /\ proc'[p].out[proc[p].k] = "not_applicable"
                 /\ Follows(p, proc[p].k)
           /\ BriefRegardless(p)]_vars

(***************************************************************************)
(* C23 as it holds: such a stage calls no model and saves no house.  The   *)
(* one file it may write is taste.json, which load_or_create_taste creates *)
(* with the default taste before vision_analysis is tested; the stage      *)
(* returns "not applicable" unless load_or_create_taste raises.  Either    *)
(* way score_house returns False after stage 2 and goes on after stage 3,  *)
(* and the brief stage calls its model with or without an analysis.        *)
(***************************************************************************)
C23_NotApplicable ==
    [][\A p \in Procs :
         Steps(p) =>
           /\ Unanalysed(p) =>
                 /\ house_files' = house_files
                 /\ proc'[p].pc # "model"
                 /\ \/ /\ proc[p].pc = "taste" /\ taste_file = "absent"
                       /\ proc'[p].pc = "write" /\ taste_file' = "empty"
                       /\ proc'[p].out = proc[p].out
                    \/ /\ proc[p].pc = "taste" /\ taste_file = "empty"
                       /\ proc'[p].out[proc[p].k] = "taste"
                       /\ UNCHANGED taste_file
                       /\ Follows(p, proc[p].k)
                    \/ /\ proc[p].pc = "taste" => taste_file = "present"
                       /\ proc'[p].out[proc[p].k] = "not_applicable"
                       /\ taste_file' = "present"
                       /\ Follows(p, proc[p].k)
           /\ BriefRegardless(p)]_vars

C23_Witness ==
    \E p \in Procs :
        /\ proc[p].cmd = "score_house" /\ proc[p].pc = "done"
        /\ proc[p].ret = "false"
        /\ proc[p].out = <<"ok", "not_applicable", "none", "none">>
        /\ proc[p].created = 2
        /\ taste_file = "present"
        /\ ~house_files[proc[p].id].doc.present_fit_score.set

====
